---- MODULE Spec2Model ----
(***************************************************************************)
(* A model of pysword (src/venv/Lib/site-packages/pysword): the            *)
(* versification structure of books.py and the module decoders and the     *)
(* facade of bible.py.                                                     *)
(*                                                                         *)
(* Python values are modelled as follows.                                  *)
(*   - a text or byte string is a sequence (of one-character strings, or   *)
(*     of byte values 0..255);                                             *)
(*   - an optional argument that may be None, a scalar or a list is a      *)
(*     record [kind |-> "none" | "one" | "list", v |-> ...];               *)
(*   - the outcome of a call is a record [ok, exc, why, val]: a normal     *)
(*     return (ok) with its value, or the exception raised.                *)
(***************************************************************************)
EXTENDS Integers, Sequences, FiniteSets, TLC

VARIABLES
    versification,   \* the versification the module was opened with
    loaded,          \* SwordBible._testaments: names of the opened testaments, in load order
    book,            \* the BookStructure a BookStructure method is applied to
    book_offsets,    \* BibleStructure._book_offsets: None or the table
    module_type,     \* the module class: rawtext, rawtext4, ztext or ztext4
    compress_type,   \* SwordBible._compress_type
    encoding,        \* SwordBible._encoding
    testaments,      \* SwordBible._testaments: the files and sizes of each opened testament
    pos,             \* the position of each open file handle
    cleaner,         \* SwordBible._cleaner: the cleaner of the source type
    call,            \* the last call made: operation, arguments
    ret,             \* its outcome
    reads,           \* the file reads the last call issued, in order
    looked,          \* the (testament, index) pairs the last call looked up, in order
    pending,         \* the (testament, index) pairs a running get_iter has yet to look up
    thread,          \* the lookup each thread is running: its position in _text_for_index, its locals
    instances        \* the Bible instances the threads use: handle positions and _encoding of each

structVars == <<versification, loaded, book, book_offsets>>
moduleVars == <<module_type, compress_type, encoding, testaments, pos, cleaner>>
threadVars == <<thread, instances>>
vars == <<versification, loaded, book, book_offsets, module_type, compress_type, encoding,
          testaments, pos, cleaner, call, ret, reads, looked, pending, thread, instances>>

----------------------------------------------------------------------------
(* Bounds of the model. *)

\* longest list of book names, chapter numbers or verse numbers passed to a call
MaxListLen == 2

\* the verse records of a module's index hold every start 0..MaxStart with
\* every length 0..MaxLen
MaxStart == 4
MaxLen == 3

----------------------------------------------------------------------------
(* Python values. *)

None == [kind |-> "none", v |-> <<>>]
One(x) == [kind |-> "one", v |-> <<x>>]
List(s) == [kind |-> "list", v |-> s]

Ok(v) == [ok |-> TRUE, exc |-> "", why |-> "", val |-> v]
Raise(e, w) == [ok |-> FALSE, exc |-> e, why |-> w, val |-> <<>>]

RECURSIVE Sum(_)
Sum(s) == IF s = <<>> THEN 0 ELSE Head(s) + Sum(Tail(s))

Max(a, b) == IF a >= b THEN a ELSE b
Min(a, b) == IF a <= b THEN a ELSE b

\* seq[:k] of Python, for any integer k
PyPrefix(s, k) ==
    IF k >= 0 THEN SubSeq(s, 1, Min(k, Len(s)))
    ELSE SubSeq(s, 1, Max(Len(s) + k, 0))

\* whether seq[i] of Python is defined (0-based, negative from the end)
PyIndexOk(s, i) == -Len(s) <= i /\ i < Len(s)

\* seq[i] of Python
PyIndex(s, i) == IF i >= 0 THEN s[i + 1] ELSE s[Len(s) + i + 1]

\* all sequences over S of length 0..n
SeqsUpTo(S, n) == UNION {[1..k -> S] : k \in 0..n}

----------------------------------------------------------------------------
(* Strings: str.lower(). *)

\* the capitals and the small letters of ASCII, which the names of the canons
\* are written in
Uppers == <<"A", "B", "C", "D", "E", "F", "G", "H", "I", "J", "K", "L", "M",
            "N", "O", "P", "Q", "R", "S", "T", "U", "V", "W", "X", "Y", "Z">>
Lowers == <<"a", "b", "c", "d", "e", "f", "g", "h", "i", "j", "k", "l", "m",
            "n", "o", "p", "q", "r", "s", "t", "u", "v", "w", "x", "y", "z">>

LowerChar(c) ==
    IF \E i \in 1..Len(Uppers) : Uppers[i] = c
    THEN Lowers[CHOOSE i \in 1..Len(Uppers) : Uppers[i] = c]
    ELSE c

UpperChar(c) ==
    IF \E i \in 1..Len(Lowers) : Lowers[i] = c
    THEN Uppers[CHOOSE i \in 1..Len(Lowers) : Lowers[i] = c]
    ELSE c

lower(s) == [i \in 1..Len(s) |-> LowerChar(s[i])]
upper(s) == [i \in 1..Len(s) |-> UpperChar(s[i])]

----------------------------------------------------------------------------
(* The canon table (pysword.canons).  Each book is                         *)
(* (name, osis_name, preferred_abbreviation, chapter_lengths); the names   *)
(* and abbreviations of different books of one canon differ, and every     *)
(* chapter holds at least one verse.                                       *)

BookStructure(n, o, p, cl) ==
    [name |-> n, osis_name |-> o, preferred_abbreviation |-> p, chapter_lengths |-> cl]

Gen  == BookStructure(<<"G","e","n","e","s","i","s">>, <<"G","e","n">>, <<"G","n">>, <<2, 1, 2>>)
Obad == BookStructure(<<"O","b","a","d","i","a","h">>, <<"O","b","a","d">>, <<"O","b">>, <<2>>)
Ruth == BookStructure(<<"R","u","t","h">>, <<"R","u","t","h">>, <<"R","u">>, <<1, 2>>)
Mark == BookStructure(<<"M","a","r","k">>, <<"M","a","r","k">>, <<"M","k">>, <<1, 2>>)
Jude == BookStructure(<<"J","u","d","e">>, <<"J","u","d","e">>, <<"J","u","d","e">>, <<2>>)

canons == [
    kjv      |-> [ot |-> <<Gen, Obad>>, nt |-> <<Mark, Jude>>],
    catholic |-> [ot |-> <<Ruth, Gen>>, nt |-> <<Jude>>]
]

Versifications == DOMAIN canons

AllBooks == UNION {{canons[v][t][i] : i \in 1..Len(canons[v][t])} : v \in Versifications, t \in {"ot", "nt"}}

----------------------------------------------------------------------------
(* books.py: BookStructure. *)

num_chapters(b) == Len(b.chapter_lengths)

name_matches_NoPreferred(b, name) ==
    LET n == lower(name)
    IN  n \in {lower(b.name), lower(b.osis_name)}

name_matches(b, name) ==
    LET n == lower(name)
    IN  n \in {lower(b.name), lower(b.osis_name), lower(b.preferred_abbreviation)}

\* the offset with the chapter itself counted among those before it
chapter_offset_Inclusive(b, chapter_index) ==
    Sum(PyPrefix(b.chapter_lengths, chapter_index + 1)) + (chapter_index + 1) + 1

\* the offset with one slot less: no slot for the book title
chapter_offset_NoBookTitle(b, chapter_index) ==
    Sum(PyPrefix(b.chapter_lengths, chapter_index)) + (chapter_index + 1)

\* lines 62-70
chapter_offset(b, chapter_index) ==
    Sum(PyPrefix(b.chapter_lengths, chapter_index)) + (chapter_index + 1) + 1

size_NoChapterHeadings(b) == Sum(b.chapter_lengths) + 1

size(b) == Sum(b.chapter_lengths) + Len(b.chapter_lengths) + 1

\* lines 81-84: chapters unset is every chapter, a single number is a list of one
NormChapters(b, chapters) ==
    IF chapters.kind = "none" THEN [i \in 1..num_chapters(b) |-> i] ELSE chapters.v

NormVerses_KeepFilter(chs, verses) ==
    IF verses.kind = "one" THEN List(verses.v) ELSE verses

\* lines 85-88: the verse filter is dropped unless exactly one chapter is selected
NormVerses(chs, verses) ==
    IF Len(chs) # 1 THEN None
    ELSE IF verses.kind = "one" THEN List(verses.v)
    ELSE verses

\* lines 94-97: the verses of one chapter of the loop
TmpVerses(b, chapter, verses) ==
    IF verses.kind = "none"
    THEN [i \in 1..PyIndex(b.chapter_lengths, chapter - 1) |-> i]
    ELSE verses.v

\* line 92: the range check of one chapter number
ChapterCheckFails_PastEnd(b, chapter) == chapter > num_chapters(b) + 1

ChapterCheckFails(b, chapter) == chapter > num_chapters(b)

\* line 98: the range check of the verses of one chapter
VerseCheckFails(b, chapter, tmp_verses) ==
    tmp_verses[Len(tmp_verses)] > PyIndex(b.chapter_lengths, chapter - 1)

\* lines 90-102: the loop over the chapters, refs being the indices found so far
RECURSIVE IndiciesLoop(_, _, _, _, _)
IndiciesLoop(b, chs, verses, offset, refs) ==
    IF chs = <<>> THEN Ok(refs)
    ELSE LET chapter == Head(chs) IN
         IF ChapterCheckFails(b, chapter) THEN Raise("ValueError", "chapters")
         ELSE IF ~PyIndexOk(b.chapter_lengths, chapter - 1)
              THEN Raise("IndexError", "chapter_lengths")
         ELSE LET tmp_verses == TmpVerses(b, chapter, verses) IN
              IF tmp_verses = <<>> THEN Raise("IndexError", "tmp_verses")
              ELSE IF VerseCheckFails(b, chapter, tmp_verses)
                   THEN Raise("ValueError", "verses")
              ELSE IndiciesLoop(b, Tail(chs), verses, offset,
                       refs \o [i \in 1..Len(tmp_verses) |->
                                  offset + chapter_offset(b, chapter - 1) + tmp_verses[i] - 1])

get_indicies(b, chapters, verses, offset) ==
    LET chs == NormChapters(b, chapters)
    IN  IndiciesLoop(b, chs, NormVerses(chs, verses), offset, <<>>)

----------------------------------------------------------------------------
(* books.py: BibleStructure. *)

\* the structure with both testaments of the canon, whatever was opened
Books_WholeCanon(v, names) ==
    [i \in 1..2 |-> [testament |-> <<"ot", "nt">>[i], books |-> canons[v][<<"ot", "nt">>[i]]]]

\* lines 122-135: BibleStructure._books, a dict in the order of the testaments given
Books(v, names) ==
    [i \in 1..Len(names) |-> [testament |-> names[i], books |-> canons[v][names[i]]]]

\* a dict as a function; d[k] = x
DictSet(d, k, x) == [y \in (DOMAIN d) \cup {k} |-> IF y = k THEN x ELSE d[y]]
EmptyDict == [y \in {} |-> 0]

NoOffsets == [set |-> FALSE, d |-> EmptyDict]

\* lines 144-148: the books of one testament, idx running from 2
RECURSIVE OffsetsOfBooks(_, _, _)
OffsetsOfBooks(bks, idx, d) ==
    IF bks = <<>> THEN d
    ELSE OffsetsOfBooks(Tail(bks), idx + size(Head(bks)), DictSet(d, Head(bks).name, idx))

RECURSIVE OffsetsOfSections(_, _)
OffsetsOfSections(sections, d) ==
    IF sections = <<>> THEN d
    ELSE OffsetsOfSections(Tail(sections), OffsetsOfBooks(Head(sections).books, 2, d))

\* the books of all testaments in one list
RECURSIVE FlatBooks(_)
FlatBooks(sections) ==
    IF sections = <<>> THEN <<>> ELSE Head(sections).books \o FlatBooks(Tail(sections))

\* the table with idx running on from one testament into the next
update_book_offsets_RunsOn(bs) == [set |-> TRUE, d |-> OffsetsOfBooks(FlatBooks(bs), 2, EmptyDict)]

\* lines 137-148
update_book_offsets(bs) == [set |-> TRUE, d |-> OffsetsOfSections(bs, EmptyDict)]

\* the table computed but not kept
OffsetsAfter_NotKept(bs, offs) == offs

\* lines 157-158: the table after a call of _book_offset
OffsetsAfter_Forgets(bs, offs) ==
    IF offs.set THEN [set |-> TRUE, d |-> EmptyDict] ELSE update_book_offsets(bs)

OffsetsAfter(bs, offs) == IF offs.set THEN offs ELSE update_book_offsets(bs)

\* line 159
book_offset(bs, offs, book_name) ==
    LET d == OffsetsAfter(bs, offs).d
    IN  IF book_name \in DOMAIN d THEN Ok(d[book_name]) ELSE Raise("KeyError", "book_name")

\* lines 171-173: the first matching book of one testament, 0 if none
FirstMatch(bks, name) ==
    IF \E i \in 1..Len(bks) : name_matches(bks[i], name)
    THEN CHOOSE i \in 1..Len(bks) :
            name_matches(bks[i], name) /\ \A j \in 1..(i - 1) : ~name_matches(bks[j], name)
    ELSE 0

RECURSIVE FindInSections(_, _)
FindInSections(sections, name) ==
    IF sections = <<>> THEN Raise("ValueError", "book")
    ELSE LET s == Head(sections)
             i == FirstMatch(s.books, name)
         IN  IF i # 0 THEN Ok([testament |-> s.testament, book |-> s.books[i]])
             ELSE FindInSections(Tail(sections), name)

find_book(bs, name) == FindInSections(bs, lower(name))

\* lines 186-193: the list of book names asked for
RECURSIVE AllNames(_)
AllNames(sections) ==
    IF sections = <<>> THEN <<>>
    ELSE [i \in 1..Len(Head(sections).books) |-> Head(sections).books[i].name]
         \o AllNames(Tail(sections))

NormBooks(bs, books) == IF books.kind = "none" THEN AllNames(bs) ELSE books.v

\* the new indices put before those of the testament
RefsExtend_Prepend(refs, testament, idxs) ==
    IF \E i \in 1..Len(refs) : refs[i].testament = testament
    THEN [i \in 1..Len(refs) |->
            IF refs[i].testament = testament
            THEN [testament |-> testament, idxs |-> idxs \o refs[i].idxs]
            ELSE refs[i]]
    ELSE Append(refs, [testament |-> testament, idxs |-> idxs])

\* lines 198-200: refs[testament].extend(idxs), refs an insertion-ordered dict
RefsExtend(refs, testament, idxs) ==
    IF \E i \in 1..Len(refs) : refs[i].testament = testament
    THEN [i \in 1..Len(refs) |->
            IF refs[i].testament = testament
            THEN [testament |-> testament, idxs |-> refs[i].idxs \o idxs]
            ELSE refs[i]]
    ELSE Append(refs, [testament |-> testament, idxs |-> idxs])

\* lines 195-203: the loop over the books; the outcome and the offset table left
RECURSIVE RefsLoop(_, _, _, _, _, _)
RefsLoop(bs, offs, names, chapters, verses, refs) ==
    IF names = <<>> THEN [ret |-> Ok(refs), offs |-> offs]
    ELSE LET found == find_book(bs, Head(names)) IN
         IF ~found.ok THEN [ret |-> found, offs |-> offs]
         ELSE LET offs2 == OffsetsAfter(bs, offs)
                  off   == book_offset(bs, offs, found.val.book.name)
              IN  IF ~off.ok THEN [ret |-> off, offs |-> offs2]
                  ELSE LET idxs == get_indicies(found.val.book, chapters, verses, off.val) IN
                       IF ~idxs.ok THEN [ret |-> idxs, offs |-> offs2]
                       ELSE RefsLoop(bs, offs2, Tail(names), chapters, verses,
                                     RefsExtend(refs, found.val.testament, idxs.val))

ref_to_indicies(bs, offs, books, chapters, verses) ==
    RefsLoop(bs, offs, NormBooks(bs, books), chapters, verses, <<>>)

----------------------------------------------------------------------------
(* bible.py: bytes, struct, codecs and files.  A text is a sequence of     *)
(* code points, a byte string a sequence of values 0..255; Str and Bytes   *)
(* tell u'' from b''.                                                      *)

Str(s) == [t |-> "str", s |-> s]
Bytes(s) == [t |-> "bytes", s |-> s]

\* a little-endian unsigned integer of the given bytes
RECURSIVE LittleEndian(_)
LittleEndian(bs) == IF bs = <<>> THEN 0 ELSE Head(bs) + 256 * LittleEndian(Tail(bs))

\* the fields of a struct format '<..': I is 4 bytes wide, H is 2
RECURSIVE UnpackFields(_, _)
UnpackFields(widths, bs) ==
    IF widths = <<>> THEN <<>>
    ELSE <<LittleEndian(SubSeq(bs, 1, Head(widths)))>>
         \o UnpackFields(Tail(widths), SubSeq(bs, Head(widths) + 1, Len(bs)))

\* struct.unpack(format, bytes): struct.error unless the buffer has the format's size
unpack(widths, bs) ==
    IF Len(bs) # Sum(widths) THEN Raise("struct.error", "size")
    ELSE Ok(UnpackFields(widths, bs))

\* file.seek(target) on a handle at position cur: the new position
seek_Ignored(cur, target) == cur

seek(cur, target) == target

\* file.read(n) at position at: the bytes [at, at + n) that the file holds
read_OneMore(data, at, n) == SubSeq(data, at + 1, Min(at + n + 1, Len(data)))

read(data, at, n) == SubSeq(data, at + 1, Min(at + n, Len(data)))

ReplacementChar == 65533

IsContinuation(b) == 128 <= b /\ b <= 191

\* the length of the sequence a lead byte opens: C2..DF two bytes, E0..EF
\* three, F0..F4 four; 0 for a byte that opens none (80..C1, F5..FF)
SequenceLength(b) ==
    IF 194 <= b /\ b <= 223 THEN 2
    ELSE IF 224 <= b /\ b <= 239 THEN 3
    ELSE IF 240 <= b /\ b <= 244 THEN 4
    ELSE 0

\* the second byte a lead byte allows: no overlong form, no surrogate, no
\* code point past U+10FFFF
IsSecond(lead, b) ==
    IF lead = 224 THEN 160 <= b /\ b <= 191
    ELSE IF lead = 237 THEN 128 <= b /\ b <= 159
    ELSE IF lead = 240 THEN 144 <= b /\ b <= 191
    ELSE IF lead = 244 THEN 128 <= b /\ b <= 143
    ELSE IsContinuation(b)

\* the bytes at the head of bs, which is not ASCII, that are the start of a
\* well-formed sequence: the whole sequence, or what an error takes with it
WellFormedPrefix(bs) ==
    LET n == SequenceLength(bs[1]) IN
    IF n = 0 \/ Len(bs) < 2 \/ ~IsSecond(bs[1], bs[2]) THEN 1
    ELSE IF n = 2 \/ Len(bs) < 3 \/ ~IsContinuation(bs[3]) THEN 2
    ELSE IF n = 3 \/ Len(bs) < 4 \/ ~IsContinuation(bs[4]) THEN 3
    ELSE 4

IsWhole(bs) == SequenceLength(bs[1]) # 0 /\ WellFormedPrefix(bs) = SequenceLength(bs[1])

\* the code point of the whole sequence at the head of bs
CodePoint(bs) ==
    LET n == SequenceLength(bs[1]) IN
    IF n = 2 THEN (bs[1] - 192) * 64 + (bs[2] - 128)
    ELSE IF n = 3 THEN (bs[1] - 224) * 4096 + (bs[2] - 128) * 64 + (bs[3] - 128)
    ELSE (bs[1] - 240) * 262144 + (bs[2] - 128) * 4096 + (bs[3] - 128) * 64 + (bs[4] - 128)

\* bytes.decode('utf-8', 'strict')
RECURSIVE Utf8Strict(_)
Utf8Strict(bs) ==
    IF bs = <<>> THEN Ok(<<>>)
    ELSE IF Head(bs) < 128
         THEN LET r == Utf8Strict(Tail(bs))
              IN  IF r.ok THEN Ok(<<Head(bs)>> \o r.val) ELSE r
    ELSE IF IsWhole(bs)
         THEN LET r == Utf8Strict(SubSeq(bs, SequenceLength(bs[1]) + 1, Len(bs)))
              IN  IF r.ok THEN Ok(<<CodePoint(bs)>> \o r.val) ELSE r
    ELSE Raise("UnicodeDecodeError", "utf-8")

\* bytes.decode('utf-8', 'replace'): an ill-formed sequence gives one U+FFFD
\* for its well-formed start
RECURSIVE Utf8Replace(_)
Utf8Replace(bs) ==
    IF bs = <<>> THEN <<>>
    ELSE IF Head(bs) < 128 THEN <<Head(bs)>> \o Utf8Replace(Tail(bs))
    ELSE IF IsWhole(bs)
         THEN <<CodePoint(bs)>> \o Utf8Replace(SubSeq(bs, SequenceLength(bs[1]) + 1, Len(bs)))
    ELSE <<ReplacementChar>> \o Utf8Replace(SubSeq(bs, WellFormedPrefix(bs) + 1, Len(bs)))

\* the code points of the bytes 0x80..0x9F in cp1252 (65533: undefined)
Cp1252High == <<8364, 65533, 8218, 402, 8222, 8230, 8224, 8225, 710, 8240, 352, 8249, 338,
                65533, 381, 65533, 65533, 8216, 8217, 8220, 8221, 8226, 8211, 8212, 732,
                8482, 353, 8250, 339, 65533, 382, 376>>

\* bytes.decode('cp1252', 'replace')
Cp1252Replace(bs) ==
    [i \in 1..Len(bs) |-> IF bs[i] < 128 \/ bs[i] >= 160 THEN bs[i] ELSE Cp1252High[bs[i] - 127]]

\* bytes.decode(encoding, 'replace')
DecodeReplace(enc, bs) ==
    IF enc = "utf-8" THEN Utf8Replace(bs) ELSE Cp1252Replace(bs)

NoEncoding == "None"

\* the decoding if a declared encoding were given up as well on bytes that
\* are not UTF-8
decode_bytes_AlwaysDetects(enc, byte_data) ==
    LET strict == Utf8Strict(byte_data)
        enc1 == IF ~strict.ok THEN "cp1252" ELSE enc
    IN  [encoding |-> enc1,
         text |-> IF enc1 # NoEncoding THEN DecodeReplace(enc1, byte_data) ELSE strict.val]

\* SwordBible._decode_bytes: the text and the encoding the module is left with
decode_bytes(enc, byte_data) ==
    LET strict == Utf8Strict(byte_data)
        enc1 == IF enc = NoEncoding /\ ~strict.ok THEN "cp1252" ELSE enc
    IN  [encoding |-> enc1,
         text |-> IF enc1 # NoEncoding THEN DecodeReplace(enc1, byte_data) ELSE strict.val]

----------------------------------------------------------------------------
(* bible.py: the module decoders.  A lookup yields its outcome, the        *)
(* encoding the module is left with, the positions its file handles are    *)
(* left at and the reads it issued.                                        *)

ModuleTypes == {"rawtext", "rawtext4", "ztext", "ztext4"}
IsRaw(mt) == mt \in {"rawtext", "rawtext4"}

\* _verse_record_size of the four module classes
verse_record_size(mt) ==
    CASE mt = "rawtext" -> 6 [] mt = "rawtext4" -> 8 [] mt = "ztext" -> 10 [] mt = "ztext4" -> 12

\* _verse_record_format of the four module classes: '<IH', '<II', '<IIH', '<III'
verse_record_format(mt) ==
    CASE mt = "rawtext" -> <<4, 2>> [] mt = "rawtext4" -> <<4, 4>>
      [] mt = "ztext" -> <<4, 4, 2>> [] mt = "ztext4" -> <<4, 4, 4>>

CompressTypes == {"ZIP", "BZIP2", "XZ", "LZSS"}

\* ---- zlib.decompress (line 428).  A zlib stream is a header of two bytes,
\* DEFLATE blocks and the Adler-32 of the data; the bytes that follow the
\* stream are ignored.  The bits of a byte are read from the least
\* significant one.

ByteAt(bs, i) == IF i <= Len(bs) THEN bs[i] ELSE 0

\* the n bits (n <= 16) at bit position p, the first the least significant
Bits(bs, p, n) ==
    ((ByteAt(bs, (p \div 8) + 1) + (256 * ByteAt(bs, (p \div 8) + 2))
        + (65536 * ByteAt(bs, (p \div 8) + 3))) \div (2 ^ (p % 8))) % (2 ^ n)

HasBits(bs, p, n) == p + n <= 8 * Len(bs)

\* the header of a zlib stream: a method and window size, a check of the two
\* bytes, and no preset dictionary (its four bytes are read, then refused)
ZlibHeader(bs) ==
    IF Len(bs) < 2 THEN "incomplete"
    ELSE IF bs[1] % 16 # 8 \/ bs[1] \div 16 > 7 \/ ((bs[1] * 256) + bs[2]) % 31 # 0 THEN "invalid"
    ELSE IF (bs[2] \div 32) % 2 = 1 THEN (IF Len(bs) < 6 THEN "incomplete" ELSE "invalid")
    ELSE "ok"

\* a * b modulo 65521 for a, b < 65521
MulMod(a, b) == ((((a \div 256) * b) % 65521) * 256 + ((a % 256) * b)) % 65521

\* the sum of the bytes lo..hi and the sum of their running sums, modulo 65521
RECURSIVE AdlerSums(_, _, _)
AdlerJoin(x, y, n) == <<(x[1] + y[1]) % 65521, (x[2] + MulMod(n % 65521, x[1]) + y[2]) % 65521>>

AdlerSums(data, lo, hi) ==
    IF lo > hi THEN <<0, 0>>
    ELSE IF lo = hi THEN <<data[lo], data[lo]>>
    ELSE AdlerJoin(AdlerSums(data, lo, (lo + hi) \div 2),
                   AdlerSums(data, ((lo + hi) \div 2) + 1, hi), hi - ((lo + hi) \div 2))

\* the Adler-32 of the data as <<b, a>>: a is 1 plus the sum of the bytes, b
\* the sum of the values a takes
AdlerPair(s, n) == <<((n % 65521) + s[2]) % 65521, (1 + s[1]) % 65521>>

Adler32(data) == AdlerPair(AdlerSums(data, 1, Len(data)), Len(data))

\* ---- Huffman codes.  A code is given by the code lengths of its symbols
\* 0, 1, ...: the codes of a length are consecutive numbers in the order of
\* the symbols, and a symbol of length 0 has no code.

Count(lens, l) == Cardinality({i \in 1..Len(lens) : lens[i] = l})

Longest(lens) == IF \A i \in 1..Len(lens) : lens[i] = 0 THEN 0
                 ELSE CHOOSE l \in 1..15 : Count(lens, l) > 0 /\ \A m \in (l + 1)..15 : Count(lens, m) = 0

\* the codes left unused after the lengths 1..l; negative when the lengths
\* are over-subscribed
RECURSIVE Left(_, _)
Left(lens, l) == IF l = 0 THEN 1 ELSE (2 * Left(lens, l - 1)) - Count(lens, l)

\* inflate_table: a set of lengths is refused when it is over-subscribed, and
\* when it is incomplete unless it is one code of length 1 of the
\* literal/length or the distance code; no code at all is accepted
CodeOk(lens, kind) ==
    \/ Longest(lens) = 0
    \/ Left(lens, 15) = 0
    \/ (Left(lens, 15) > 0 /\ kind # "codes" /\ Longest(lens) = 1)

\* the first code of length l
RECURSIVE FirstCode(_, _)
FirstCode(lens, l) == IF l = 1 THEN 0 ELSE 2 * (FirstCode(lens, l - 1) + Count(lens, l - 1))

\* the l bits of c in the opposite order: a code is read from its most
\* significant bit
RECURSIVE RevBits(_, _)
RevBits(c, l) == IF l = 0 THEN 0 ELSE ((c % 2) * (2 ^ (l - 1))) + RevBits(c \div 2, l - 1)

\* the symbols of the codes of length l, by the bits as they are read: the
\* k-th symbol of that length has the code first + k
CodeTable(syms, first, l) ==
    [v \in {RevBits(first + k, l) : k \in 0..(Len(syms) - 1)} |-> syms[(RevBits(v, l) - first) + 1]]

Code(lens) ==
    [max |-> Longest(lens),
     lengths |-> {l \in 1..15 : Count(lens, l) > 0},
     table |-> [l \in 1..15 |->
                  CodeTable(SelectSeq([i \in 1..Len(lens) |-> i - 1], LAMBDA s : lens[s + 1] = l),
                            FirstCode(lens, l), l)]]

NoCode == Code(<<>>)

\* the symbol whose code the bits at p begin with, and the position after
\* it; bits that are no code are refused once as many bits as the longest
\* code has (one at least) are there
Matches(h, bs, p) == {l \in h.lengths : HasBits(bs, p, l) /\ Bits(bs, p, l) \in DOMAIN h.table[l]}

Found(h, bs, p, l) == [status |-> "ok", sym |-> h.table[l][Bits(bs, p, l)], p |-> p + l]

Huff(h, bs, p) ==
    IF Matches(h, bs, p) # {} THEN Found(h, bs, p, CHOOSE l \in Matches(h, bs, p) : TRUE)
    ELSE IF HasBits(bs, p, Max(h.max, 1)) THEN [status |-> "invalid"]
    ELSE [status |-> "incomplete"]

\* the codes of a block of type 1
FixedLit ==
    Code([i \in 1..288 |-> IF i <= 144 THEN 8 ELSE IF i <= 256 THEN 9 ELSE IF i <= 280 THEN 7 ELSE 8])
FixedDist == Code([i \in 1..32 |-> 5])

\* the lengths and distances of the symbols 257..285 and 0..29, and the
\* number of extra bits that follow the symbol
LenBase == <<3, 4, 5, 6, 7, 8, 9, 10, 11, 13, 15, 17, 19, 23, 27, 31, 35, 43, 51, 59,
             67, 83, 99, 115, 131, 163, 195, 227, 258>>
LenExtra == <<0, 0, 0, 0, 0, 0, 0, 0, 1, 1, 1, 1, 2, 2, 2, 2, 3, 3, 3, 3,
              4, 4, 4, 4, 5, 5, 5, 5, 0>>
DistBase == <<1, 2, 3, 4, 5, 7, 9, 13, 17, 25, 33, 49, 65, 97, 129, 193, 257, 385, 513, 769,
              1025, 1537, 2049, 3073, 4097, 6145, 8193, 12289, 16385, 24577>>
DistExtra == <<0, 0, 0, 0, 1, 1, 2, 2, 3, 3, 4, 4, 5, 5, 6, 6, 7, 7, 8, 8,
               9, 9, 10, 10, 11, 11, 12, 12, 13, 13>>

\* the order in which a block of type 2 gives the lengths of the code of
\* the code lengths
Order == <<16, 17, 18, 0, 8, 7, 9, 6, 10, 5, 11, 4, 12, 3, 13, 2, 14, 1, 15>>

\* ---- inflate: the decoder after the header.  status is what it reads
\* next: "type" the header of a block, "lens" a code length of a block of
\* type 2, "sym" a symbol of a block, "check" the Adler-32; or "ok",
\* "incomplete" (the bytes end before the stream does), "invalid".
InflateStart(bs) ==
    [in |-> bs, p |-> 16, out |-> <<>>, status |-> "type", last |-> FALSE,
     lit |-> NoCode, dist |-> NoCode, codes |-> NoCode, lens |-> <<>>, nlen |-> 0, ndist |-> 0]

Stop(d, status) == [d EXCEPT !.status = status]

\* the end of a block
BlockEnd(d, p) == [d EXCEPT !.p = p, !.status = IF d.last THEN "check" ELSE "type"]

\* a block of type 0: the bits up to the next byte are dropped; a length, its
\* complement and the bytes follow
Stored(d, at) ==
    IF Len(d.in) < at + 4 THEN Stop(d, "incomplete")
    ELSE IF (d.in[at + 1] + (256 * d.in[at + 2])) + (d.in[at + 3] + (256 * d.in[at + 4])) # 65535
    THEN Stop(d, "invalid")
    ELSE IF Len(d.in) < at + 4 + (d.in[at + 1] + (256 * d.in[at + 2])) THEN Stop(d, "incomplete")
    ELSE BlockEnd([d EXCEPT !.out = @ \o SubSeq(d.in, at + 5, at + 4 + (d.in[at + 1] + (256 * d.in[at + 2])))],
                  8 * (at + 4 + (d.in[at + 1] + (256 * d.in[at + 2]))))

\* the lengths of the code of the code lengths: ncode of them, 3 bits each
CodeLens(bs, p, ncode) ==
    [s \in 1..19 |-> IF (CHOOSE i \in 1..19 : Order[i] = s - 1) <= ncode
                     THEN Bits(bs, p + (3 * ((CHOOSE i \in 1..19 : Order[i] = s - 1) - 1)), 3)
                     ELSE 0]

DynamicCodes(d, p, lens) ==
    IF ~CodeOk(lens, "codes") THEN Stop(d, "invalid")
    ELSE [d EXCEPT !.p = p, !.status = "lens", !.codes = Code(lens), !.lens = <<>>]

\* a block of type 2: the numbers of literal/length codes, of distance codes
\* and of lengths of the code of the code lengths
Dynamic(d, p) ==
    IF ~HasBits(d.in, p, 14) THEN Stop(d, "incomplete")
    ELSE IF Bits(d.in, p, 5) + 257 > 286 \/ Bits(d.in, p + 5, 5) + 1 > 30 THEN Stop(d, "invalid")
    ELSE IF ~HasBits(d.in, p + 14, 3 * (Bits(d.in, p + 10, 4) + 4)) THEN Stop(d, "incomplete")
    ELSE DynamicCodes([d EXCEPT !.nlen = Bits(d.in, p, 5) + 257, !.ndist = Bits(d.in, p + 5, 5) + 1],
                      p + 14 + (3 * (Bits(d.in, p + 10, 4) + 4)),
                      CodeLens(d.in, p + 14, Bits(d.in, p + 10, 4) + 4))

\* the header of a block: whether it is the last one, and its type
BlockType(d, last, type) ==
    CASE type = 0 -> Stored([d EXCEPT !.last = last], (d.p + 3 + 7) \div 8)
      [] type = 1 -> [d EXCEPT !.last = last, !.p = d.p + 3, !.status = "sym",
                                !.lit = FixedLit, !.dist = FixedDist]
      [] type = 2 -> Dynamic([d EXCEPT !.last = last], d.p + 3)
      [] type = 3 -> Stop(d, "invalid")

InflateType(d) ==
    IF ~HasBits(d.in, d.p, 3) THEN Stop(d, "incomplete")
    ELSE BlockType(d, Bits(d.in, d.p, 1) = 1, Bits(d.in, d.p + 1, 2))

\* the code lengths of a block of type 2 are all read: the end-of-block
\* symbol has a code, and the two sets of lengths are codes
Tables(d) ==
    IF d.lens[257] = 0 THEN Stop(d, "invalid")
    ELSE IF ~CodeOk(SubSeq(d.lens, 1, d.nlen), "lens") THEN Stop(d, "invalid")
    ELSE IF ~CodeOk(SubSeq(d.lens, d.nlen + 1, d.nlen + d.ndist), "dists") THEN Stop(d, "invalid")
    ELSE [d EXCEPT !.status = "sym", !.lit = Code(SubSeq(d.lens, 1, d.nlen)),
                   !.dist = Code(SubSeq(d.lens, d.nlen + 1, d.nlen + d.ndist))]

\* n more lengths of value v, read up to bit position p
Repeat(d, p, v, n) ==
    IF Len(d.lens) + n > d.nlen + d.ndist THEN Stop(d, "invalid")
    ELSE [d EXCEPT !.p = p, !.lens = @ \o [i \in 1..n |-> v]]

\* a symbol of the code of the code lengths: a length 0..15, or 16 (the
\* length before, 3 to 6 times), 17 (3 to 10 zeros), 18 (11 to 138 zeros)
LensSym(d, r) ==
    IF r.status # "ok" THEN Stop(d, r.status)
    ELSE IF r.sym < 16 THEN [d EXCEPT !.p = r.p, !.lens = Append(@, r.sym)]
    ELSE IF r.sym = 16
    THEN (IF ~HasBits(d.in, r.p, 2) THEN Stop(d, "incomplete")
          ELSE IF d.lens = <<>> THEN Stop(d, "invalid")
          ELSE Repeat(d, r.p + 2, d.lens[Len(d.lens)], 3 + Bits(d.in, r.p, 2)))
    ELSE IF r.sym = 17
    THEN (IF ~HasBits(d.in, r.p, 3) THEN Stop(d, "incomplete")
          ELSE Repeat(d, r.p + 3, 0, 3 + Bits(d.in, r.p, 3)))
    ELSE (IF ~HasBits(d.in, r.p, 7) THEN Stop(d, "incomplete")
          ELSE Repeat(d, r.p + 7, 0, 11 + Bits(d.in, r.p, 7)))

\* a code of the code lengths without any code reads one bit as the length 0
InflateLens(d) ==
    IF Len(d.lens) = d.nlen + d.ndist THEN Tables(d)
    ELSE IF d.codes.max = 0
    THEN (IF ~HasBits(d.in, d.p, 1) THEN Stop(d, "incomplete")
          ELSE [d EXCEPT !.p = d.p + 1, !.lens = Append(@, 0)])
    ELSE LensSym(d, Huff(d.codes, d.in, d.p))

\* the len bytes that repeat the bytes dist back
CopyBytes(out, dist, len) == out \o [i \in 1..len |-> out[(Len(out) - dist) + 1 + ((i - 1) % dist)]]

Copy(d, p, len, dist) ==
    IF dist > Len(d.out) THEN Stop(d, "invalid")
    ELSE [d EXCEPT !.p = p, !.out = CopyBytes(@, dist, len)]

\* the distance of a match: a symbol of the distance code and its extra bits
DistSym(d, len, r) ==
    IF r.status # "ok" THEN Stop(d, r.status)
    ELSE IF r.sym > 29 THEN Stop(d, "invalid")
    ELSE IF ~HasBits(d.in, r.p, DistExtra[r.sym + 1]) THEN Stop(d, "incomplete")
    ELSE Copy(d, r.p + DistExtra[r.sym + 1], len,
              DistBase[r.sym + 1] + Bits(d.in, r.p, DistExtra[r.sym + 1]))

\* a symbol of the literal/length code: a byte, the end of the block (256),
\* or the length of a match and its extra bits
LitSym(d, r) ==
    IF r.status # "ok" THEN Stop(d, r.status)
    ELSE IF r.sym < 256 THEN [d EXCEPT !.p = r.p, !.out = Append(@, r.sym)]
    ELSE IF r.sym = 256 THEN BlockEnd(d, r.p)
    ELSE IF r.sym > 285 THEN Stop(d, "invalid")
    ELSE IF ~HasBits(d.in, r.p, LenExtra[r.sym - 256]) THEN Stop(d, "incomplete")
    ELSE DistSym(d, LenBase[r.sym - 256] + Bits(d.in, r.p, LenExtra[r.sym - 256]),
                 Huff(d.dist, d.in, r.p + LenExtra[r.sym - 256]))

InflateSym(d) == LitSym(d, Huff(d.lit, d.in, d.p))

Active(d) == d.status \in {"type", "lens", "sym"}

InflateStep(d) ==
    CASE d.status = "type" -> InflateType(d)
      [] d.status = "lens" -> InflateLens(d)
      [] d.status = "sym" -> InflateSym(d)

\* 2^k steps of the decoder
RECURSIVE InflateRun(_, _)
InflateRun(d, k) ==
    IF ~Active(d) THEN d
    ELSE IF k = 0 THEN InflateStep(d)
    ELSE InflateRun(InflateRun(d, k - 1), k - 1)

\* the blocks, until the last one ends, the bytes run out or are refused
RECURSIVE InflateLoop(_, _)
InflateLoop(d, k) == IF ~Active(d) THEN d ELSE InflateLoop(InflateRun(d, k), k + 1)

\* the Adler-32 of the data, most significant byte first, in the four bytes
\* after the last block
Check(d, at) ==
    IF d.status # "check" THEN d
    ELSE IF Len(d.in) < at + 4 THEN Stop(d, "incomplete")
    ELSE IF <<(256 * d.in[at + 1]) + d.in[at + 2], (256 * d.in[at + 3]) + d.in[at + 4]>> # Adler32(d.out)
    THEN Stop(d, "invalid")
    ELSE Stop(d, "ok")

CheckAligned(d) == Check(d, (d.p + 7) \div 8)

Inflate(bs) == CheckAligned(InflateLoop(InflateStart(bs), 0))

\* the data of the stream the bytes begin with, or why there is none
Inflated(d) == IF d.status = "ok" THEN [status |-> "ok", data |-> d.out] ELSE [status |-> d.status]

StreamOf(header, bs) == IF header # "ok" THEN [status |-> header] ELSE Inflated(Inflate(bs))

ZlibStream(bs) == StreamOf(ZlibHeader(bs), bs)

\* zlib.decompress: the data of the first stream; what follows it is ignored
ZlibResult(r) == IF r.status = "ok" THEN Ok(r.data) ELSE Raise("zlib.error", r.status)

ZlibDecompress(bs) == ZlibResult(ZlibStream(bs))

Outcome(r, enc, p, rd) == [ret |-> r, encoding |-> enc, pos |-> p, reads |-> rd]
ReadOf(f, at, n) == [file |-> f, at |-> at, n |-> n]

\* lines 313, 389: the record of the index lies past the end of the index file
IndexCheckFails_OffByOne(rs, index, index_size) == (rs * index) > index_size

IndexCheckFails(rs, index, index_size) == (rs * (index + 1)) > index_size

\* line 324: the verse lies past the end of the text file
TextCheckFails_StartOnly(verse_start, verse_len, text_size) == verse_start > text_size

TextCheckFails(verse_start, verse_len, text_size) == (verse_start + verse_len) > text_size

\* RawTextModule._text_for_index
raw_text_for_index(mt, tm, enc, p, index) ==
    LET rs == verse_record_size(mt) IN
    IF IndexCheckFails(rs, index, tm.v2l_size) THEN Outcome(Ok(Str(<<>>)), enc, p, <<>>)
    ELSE
    LET at1  == seek(p.v2l, rs * index)
        raw  == read(tm.v2l, at1, rs)
        p1   == [p EXCEPT !.v2l = at1 + Len(raw)]
        rd1  == <<ReadOf("v2l", at1, rs)>>
        rec  == unpack(verse_record_format(mt), raw)
    IN  IF ~rec.ok THEN Outcome(rec, enc, p1, rd1)
        ELSE
        LET verse_start == rec.val[1]
            verse_len   == rec.val[2]
        IN  IF TextCheckFails(verse_start, verse_len, tm.text_size)
            THEN Outcome(Ok(Bytes(<<>>)), enc, p1, rd1)
            ELSE
            LET at2 == seek(p1.text, verse_start)
                data == read(tm.text, at2, verse_len)
                dec == decode_bytes(enc, data)
            IN  Outcome(Ok(Str(dec.text)), dec.encoding,
                        [p1 EXCEPT !.text = at2 + Len(data)],
                        rd1 \o <<ReadOf("text", at2, verse_len)>>)

\* the empty block in place of an error
OrEmpty(r) == IF r.ok THEN r ELSE Ok(<<>>)

\* the decompression without the except clause of line 429
decompress_block_Uncaught(alg, compressed_data) == ZlibDecompress(compressed_data)

\* lines 427-431: the decompression _decompressed_text applies
decompress_block(alg, compressed_data) == OrEmpty(ZlibDecompress(compressed_data))

\* ZTextModule._decompressed_text: the block, the positions and the reads
decompressed_text(alg, tm, p, buf_num) ==
    IF ((buf_num + 1) * 12) > tm.b2l_size THEN [ret |-> Ok(<<>>), pos |-> p, reads |-> <<>>]
    ELSE
    LET at1 == seek(p.b2l, buf_num * 12)
        raw == read(tm.b2l, at1, 12)
        p1  == [p EXCEPT !.b2l = at1 + Len(raw)]
        rd1 == <<ReadOf("b2l", at1, 12)>>
        rec == unpack(<<4, 4, 4>>, raw)
    IN  IF ~rec.ok THEN [ret |-> rec, pos |-> p1, reads |-> rd1]
        ELSE
        LET offset == rec.val[1]
            sz     == rec.val[2]
        IN  IF (offset + sz) > tm.text_size THEN [ret |-> Ok(<<>>), pos |-> p1, reads |-> rd1]
            ELSE
            LET at2 == seek(p1.text, offset)
                compressed_data == read(tm.text, at2, sz)
            IN  [ret |-> decompress_block(alg, compressed_data),
                 pos |-> [p1 EXCEPT !.text = at2 + Len(compressed_data)],
                 reads |-> rd1 \o <<ReadOf("text", at2, sz)>>]

\* bytes[start:stop] of Python for 0 <= start <= stop
slice(bs, start, stop) == SubSeq(bs, Min(start, Len(bs)) + 1, Min(stop, Len(bs)))

\* ZTextModule._text_for_index
z_text_for_index(mt, alg, tm, enc, p, index) ==
    LET rs == verse_record_size(mt) IN
    IF IndexCheckFails(rs, index, tm.v2b_size) THEN Outcome(Ok(Str(<<>>)), enc, p, <<>>)
    ELSE
    LET at1 == seek(p.v2b, rs * index)
        raw == read(tm.v2b, at1, rs)
        p1  == [p EXCEPT !.v2b = at1 + Len(raw)]
        rd1 == <<ReadOf("v2b", at1, rs)>>
        rec == unpack(verse_record_format(mt), raw)
    IN  IF ~rec.ok THEN Outcome(rec, enc, p1, rd1)
        ELSE
        LET buf_num     == rec.val[1]
            verse_start == rec.val[2]
            verse_len   == rec.val[3]
            block       == decompressed_text(alg, tm, p1, buf_num)
        IN  IF ~block.ret.ok THEN Outcome(block.ret, enc, block.pos, rd1 \o block.reads)
            ELSE
            LET dec == decode_bytes(enc, slice(block.ret.val, verse_start, verse_start + verse_len))
            IN  Outcome(Ok(Str(dec.text)), dec.encoding, block.pos, rd1 \o block.reads)

\* _text_for_index of the class the module type selects (lines 479-480)
text_for_index(mt, alg, tm, enc, p, index) ==
    IF IsRaw(mt) THEN raw_text_for_index(mt, tm, enc, p, index)
    ELSE z_text_for_index(mt, alg, tm, enc, p, index)

----------------------------------------------------------------------------
(* The arguments the calls are made with. *)

SetMax(S) == CHOOSE x \in S : \A y \in S : y <= x

\* a chapter or verse selection: unset, one number, or a list of numbers
NumArgs(S) ==
    {None} \cup {One(x) : x \in S} \cup {List(s) : s \in SeqsUpTo(S, MaxListLen)}

\* chapter numbers up to one past the last chapter, verse numbers up to one
\* past the longest chapter; 0 is a number Python accepts
ChapterNumbers(b) == 0..(num_chapters(b) + 1)
VerseNumbers(b) == 0..(SetMax({b.chapter_lengths[i] : i \in 1..num_chapters(b)}) + 1)

Labels == UNION {{b.name, b.osis_name, b.preferred_abbreviation} : b \in AllBooks}
UnknownName == <<"N","o","d">>
NameInputs == Labels \cup {lower(l) : l \in Labels} \cup {upper(l) : l \in Labels} \cup {UnknownName}

\* the book names of a reference: full names, an abbreviation in another case, an unknown name
RefNames == {b.name : b \in AllBooks} \cup {lower(Gen.osis_name), UnknownName}
BooksArgs == {None} \cup {One(n) : n \in RefNames} \cup {List(s) : s \in SeqsUpTo(RefNames, MaxListLen)}

\* the chapter and the verse of a reference given to the Bible structure
RefChapters == {None} \cup {One(c) : c \in 0..(SetMax({num_chapters(b) : b \in AllBooks}) + 1)}
RefVerses == {None} \cup {One(x) : x \in UNION {VerseNumbers(b) : b \in AllBooks}}

LoadOrders == {<<"ot", "nt">>, <<"ot">>, <<"nt">>}

\* BibleStructure._books of the opened module
structure == Books(versification, loaded)

----------------------------------------------------------------------------
(* The files of the modules the calls are made on: one constructed module  *)
(* per module type and compression.                                        *)

\* the text of a testament: "Hi", U+00E9 in UTF-8, "<"
PlainText == <<72, 105, 195, 169, 60>>

\* value as width little-endian bytes
PackLE(value, width) == [i \in 1..width |-> (value \div (256 ^ (i - 1))) % 256]

RECURSIVE Pack(_, _)
Pack(widths, fields) ==
    IF widths = <<>> THEN <<>>
    ELSE PackLE(Head(fields), Head(widths)) \o Pack(Tail(widths), Tail(fields))

\* (start, length) for every start 0..MaxStart and length 0..MaxLen
VerseRecords ==
    [k \in 1..((MaxStart + 1) * (MaxLen + 1)) |->
        <<(k - 1) \div (MaxLen + 1), (k - 1) % (MaxLen + 1)>>]

\* the bytes of an incomplete record that end an index file
Padding == <<1, 2, 3>>

RECURSIVE IndexFile(_, _)
IndexFile(widths, records) ==
    IF records = <<>> THEN Padding
    ELSE Pack(widths, Head(records)) \o IndexFile(widths, Tail(records))

RawTestament(mt) ==
    LET v2l == IndexFile(verse_record_format(mt), VerseRecords)
    IN  [v2l |-> v2l, v2l_size |-> Len(v2l), text |-> PlainText, text_size |-> Len(PlainText)]

\* the text as the compressor of an algorithm writes it: zlib.compress,
\* bz2.compress and lzma.compress of PlainText, and for LZSS a flag byte
\* and five literals
Compressed(alg) ==
    CASE alg = "ZIP" -> <<120, 156, 243, 200, 60, 188, 210, 6, 0, 6, 232, 2, 90>>
      [] alg = "BZIP2" ->
           <<66, 90, 104, 57, 49, 65, 89, 38, 83, 89, 98, 229, 153, 47, 0, 0, 0, 141, 20, 0,
             4, 0, 64, 0, 32, 0, 32, 8, 0, 32, 0, 33, 131, 65, 154, 13, 40, 113, 119, 36,
             83, 133, 9, 6, 46, 89, 146, 240>>
      [] alg = "XZ" ->
           <<253, 55, 122, 88, 90, 0, 0, 4, 230, 214, 180, 70, 2, 0, 33, 1, 22, 0, 0, 0,
             116, 47, 229, 163, 1, 0, 4, 72, 105, 195, 169, 60, 0, 0, 0, 0, 108, 52, 1, 191,
             226, 171, 146, 31, 0, 1, 29, 5, 184, 45, 128, 175, 31, 182, 243, 125, 1, 0, 0, 0,
             0, 4, 89, 90>>
      [] alg = "LZSS" -> <<31, 72, 105, 195, 169, 60>>

\* the compressed text with its last byte, the end of the check of the
\* data, changed
Damaged(alg) ==
    [Compressed(alg) EXCEPT ![Len(Compressed(alg))] = (@ + 1) % 256]

\* block 0 is the text compressed, block 1 is not a compressed stream, block 2
\* lies past the end of the text file, block 3 is the compressed text and the
\* bytes after it, block 4 is the compressed text without its last byte,
\* block 5 is the compressed text with a wrong check; there is no block 6
ZText(alg) == Compressed(alg) \o <<9, 9>> \o Damaged(alg)
BlockRecords(alg) ==
    <<<<0, Len(Compressed(alg)), Len(PlainText)>>,
      <<Len(Compressed(alg)), 2, Len(PlainText)>>,
      <<Len(PlainText), Len(ZText(alg)), Len(PlainText)>>,
      <<0, Len(Compressed(alg)) + 2, Len(PlainText)>>,
      <<0, Len(Compressed(alg)) - 1, Len(PlainText)>>,
      <<Len(Compressed(alg)) + 2, Len(Compressed(alg)), Len(PlainText)>>>>

\* (block, start, length): every verse record on block 0, one on each other block
ZVerseRecords ==
    [k \in 1..Len(VerseRecords) |-> <<0>> \o VerseRecords[k]]
    \o <<<<1, 0, 2>>, <<2, 0, 2>>, <<3, 0, 2>>, <<4, 0, 2>>, <<5, 0, 2>>, <<6, 0, 2>>>>

ZTestament(mt, alg) ==
    LET v2b == IndexFile(verse_record_format(mt), ZVerseRecords)
        b2l == IndexFile(<<4, 4, 4>>, BlockRecords(alg))
    IN  [v2b |-> v2b, v2b_size |-> Len(v2b), b2l |-> b2l, b2l_size |-> Len(b2l),
         text |-> ZText(alg), text_size |-> Len(ZText(alg))]

\* Testament.__init__: the files of a testament and their sizes
Testament(mt, alg) == IF IsRaw(mt) THEN RawTestament(mt) ELSE ZTestament(mt, alg)

\* the handles of a testament just opened
StartPos(mt) == IF IsRaw(mt) THEN [v2l |-> 0, text |-> 0] ELSE [v2b |-> 0, b2l |-> 0, text |-> 0]

NumRecords(mt) == IF IsRaw(mt) THEN Len(VerseRecords) ELSE Len(ZVerseRecords)

Names(order) == {order[i] : i \in 1..Len(order)}

\* a module opened with the given files and no call made yet
Opened(mt, alg, enc, order) ==
    /\ module_type = mt
    /\ compress_type = alg
    /\ encoding = enc
    /\ loaded = order
    /\ testaments = [t \in Names(order) |-> Testament(mt, alg)]
    /\ pos = [t \in Names(order) |-> StartPos(mt)]

\* a module whose files hold no record: the structure needs the names of the
\* opened testaments only
NoFiles == [v2b |-> <<>>, v2b_size |-> 0, b2l |-> <<>>, b2l_size |-> 0,
            text |-> <<>>, text_size |-> 0]

OpenedEmpty(order) ==
    /\ module_type = "ztext"
    /\ compress_type = "ZIP"
    /\ encoding = NoEncoding
    /\ loaded = order
    /\ testaments = [t \in Names(order) |-> NoFiles]
    /\ pos = [t \in Names(order) |-> StartPos("ztext")]

----------------------------------------------------------------------------
(* A caller makes one call at a time: an operation runs from the idle       *)
(* state and leaves its arguments and its outcome in call and ret, which   *)
(* the caller takes (Return) before the next call.                         *)

Idle == [op |-> "idle"]

\* no call is running, in any thread
NoCall ==
    /\ call = Idle /\ ret = Ok(<<>>) /\ reads = <<>> /\ looked = <<>> /\ pending = <<>>
    /\ thread = <<>> /\ instances = <<>>

Return ==
    /\ call.op # "idle"
    /\ pending = <<>>
    /\ call' = Idle
    /\ ret' = Ok(<<>>)
    /\ reads' = <<>>
    /\ looked' = <<>>
    /\ pending' = <<>>
    /\ UNCHANGED <<threadVars, structVars, moduleVars>>

----------------------------------------------------------------------------
(* The calls on a BookStructure. *)

InitBook ==
    /\ versification = "kjv"
    /\ book \in AllBooks
    /\ book_offsets = NoOffsets
    /\ OpenedEmpty(<<"ot", "nt">>)
    /\ cleaner = "OSIS"
    /\ NoCall

GetIndicies ==
    /\ call.op = "idle"
    /\ \E chapters \in NumArgs(ChapterNumbers(book)), verses \in NumArgs(VerseNumbers(book)),
          offset \in {0, 2} :
        /\ call' = [op |-> "get_indicies", chapters |-> chapters, verses |-> verses,
                    offset |-> offset]
        /\ ret' = get_indicies(book, chapters, verses, offset)
        /\ UNCHANGED <<threadVars, structVars, moduleVars, reads, looked, pending>>

\* the chapter indices passed to chapter_offset: those of the book's
\* chapters, one before and one or two past them
ChapterIndices(b) == -1..(num_chapters(b) + 1)

ChapterOffset ==
    /\ call.op = "idle"
    /\ \E chapter_index \in ChapterIndices(book) :
        /\ call' = [op |-> "chapter_offset", chapter_index |-> chapter_index]
        /\ ret' = Ok(chapter_offset(book, chapter_index))
        /\ UNCHANGED <<threadVars, structVars, moduleVars, reads, looked, pending>>

NextBook == GetIndicies \/ ChapterOffset \/ Return

SpecBook == InitBook /\ [][NextBook]_vars

----------------------------------------------------------------------------
(* The calls on the BibleStructure of an opened module. *)

Init ==
    /\ versification \in Versifications
    /\ book = Gen
    /\ book_offsets = NoOffsets
    /\ \E order \in LoadOrders : OpenedEmpty(order)
    /\ cleaner = "OSIS"
    /\ NoCall

FindBook ==
    /\ call.op = "idle"
    /\ \E name \in NameInputs :
        /\ call' = [op |-> "find_book", name |-> name]
        /\ ret' = find_book(structure, name)
        /\ UNCHANGED <<threadVars, structVars, moduleVars, reads, looked, pending>>

RefToIndicies ==
    /\ call.op = "idle"
    /\ \E books \in BooksArgs, chapters \in RefChapters, verses \in RefVerses :
        \E r \in {ref_to_indicies(structure, book_offsets, books, chapters, verses)} :
        /\ call' = [op |-> "ref_to_indicies", books |-> books, chapters |-> chapters,
                    verses |-> verses]
        /\ ret' = r.ret
        /\ book_offsets' = r.offs
        /\ UNCHANGED <<threadVars, versification, loaded, book, moduleVars, reads, looked, pending>>

\* the names passed to _book_offset: the names of the books of every canon,
\* one of them in lower case, and an unknown name
OffsetNames == {b.name : b \in AllBooks} \cup {lower(Gen.name), UnknownName}

\* BibleStructure._book_offset(book_name)
BookOffset ==
    /\ call.op = "idle"
    /\ \E book_name \in OffsetNames :
        /\ call' = [op |-> "book_offset", book_name |-> book_name]
        /\ ret' = book_offset(structure, book_offsets, book_name)
        /\ book_offsets' = OffsetsAfter(structure, book_offsets)
        /\ UNCHANGED <<threadVars, versification, loaded, book, moduleVars, reads, looked, pending>>

Next == FindBook \/ RefToIndicies \/ BookOffset \/ Return

Spec == Init /\ [][Next]_vars

----------------------------------------------------------------------------
(* The lookups of a module decoder. *)

Encodings == {NoEncoding, "utf-8", "cp1252"}

TagReads(t, rds) ==
    [i \in 1..Len(rds) |-> [testament |-> t, file |-> rds[i].file, at |-> rds[i].at, n |-> rds[i].n]]

InitModule ==
    /\ versification = "kjv"
    /\ book = Gen
    /\ book_offsets = NoOffsets
    /\ \E mt \in ModuleTypes, enc \in Encodings :
         \E alg \in (IF IsRaw(mt) THEN {"ZIP"} ELSE CompressTypes) :
            Opened(mt, alg, enc, <<"ot">>)
    /\ cleaner = "OSIS"
    /\ NoCall

TextForIndex ==
    /\ call.op = "idle"
    /\ \E t \in DOMAIN testaments, index \in 0..(NumRecords(module_type) + 1) :
        \E o \in {text_for_index(module_type, compress_type, testaments[t], encoding,
                                 pos[t], index)} :
        /\ call' = [op |-> "text_for_index", testament |-> t, index |-> index]
        /\ ret' = o.ret
        /\ encoding' = o.encoding
        /\ pos' = [pos EXCEPT ![t] = o.pos]
        /\ reads' = TagReads(t, o.reads)
        /\ looked' = <<[testament |-> t, index |-> index]>>
        /\ UNCHANGED <<threadVars, structVars, module_type, compress_type, testaments, cleaner, pending>>

NextModule == TextForIndex \/ Return

SpecModule == InitModule /\ [][NextModule]_vars

----------------------------------------------------------------------------
(* cleaner.py: the markup cleaners.  A text is a sequence of code points;   *)
(* a regular expression is the sequence of its items, matched as Python's  *)
(* re matches it: leftmost, a lazy item trying its shortest extent first   *)
(* and a greedy one its longest.                                           *)

\* the characters of code points 32..126, in order (the backslash and the
\* backquote, which no pattern or text of the model holds, by their names)
Printable == <<
    " ", "!", "\"", "#", "$", "%", "&", "'", "(", ")", "*", "+", ",", "-", ".", "/",
    "0", "1", "2", "3", "4", "5", "6", "7", "8", "9", ":", ";", "<", "=", ">", "?",
    "@", "A", "B", "C", "D", "E", "F", "G", "H", "I", "J", "K", "L", "M", "N", "O",
    "P", "Q", "R", "S", "T", "U", "V", "W", "X", "Y", "Z", "[", "backslash", "]", "^", "_",
    "backquote", "a", "b", "c", "d", "e", "f", "g", "h", "i", "j", "k", "l", "m", "n", "o",
    "p", "q", "r", "s", "t", "u", "v", "w", "x", "y", "z", "{", "|", "}", "~">>

\* ord(c) of Python
ord(c) == 31 + CHOOSE i \in 1..Len(Printable) : Printable[i] = c

\* the code points of a text literal
U(s) == [i \in 1..Len(s) |-> ord(s[i])]

\* the items of a regular expression: a literal, '.', '.*?', and '[^c]*'
\* ('[^c]+' with min 1)
Lit(s) == [k |-> "lit", s |-> s, c |-> 0, min |-> 0]
AnyChar == [k |-> "dot", s |-> <<>>, c |-> 0, min |-> 0]
Lazy == [k |-> "lazy", s |-> <<>>, c |-> 0, min |-> 0]
NotChars(c, min) == [k |-> "not", s |-> <<>>, c |-> c, min |-> min]

\* re.compile(pattern, flags)
Regex(items, ignorecase) == [items |-> items, ignorecase |-> ignorecase]

\* the case folding of re.IGNORECASE on text: the letters A-Z, and the
\* code points that fold to an ASCII letter (U+0130 and U+0131 to i, U+017F
\* to s, U+212A to k)
Fold(c) ==
    IF 65 <= c /\ c <= 90 THEN c + 32
    ELSE IF c \in {304, 305} THEN 105
    ELSE IF c = 383 THEN 115
    ELSE IF c = 8490 THEN 107
    ELSE c

SameChar(ignorecase, a, b) == IF ignorecase THEN Fold(a) = Fold(b) ELSE a = b

\* whether the literal s stands in text at position i (1-based)
LitAt(ignorecase, s, text, i) ==
    /\ i + Len(s) - 1 <= Len(text)
    /\ \A j \in 1..Len(s) : SameChar(ignorecase, s[j], text[i + j - 1])

\* the least and the greatest of a set of positions
Least(S) == CHOOSE x \in S : \A y \in S : x <= y
Greatest(S) == CHOOSE x \in S : \A y \in S : x >= y

\* the end of the longest run of characters other than c from position i
RunEnd(text, i, c) == Least({j \in i..(Len(text) + 1) : j > Len(text) \/ text[j] = c})

\* the end of the longest run of characters '.' matches from position i: '.'
\* matches any character but a newline
DotEnd(text, i) == RunEnd(text, i, 10)

\* the items k.. of re matched in text from position i: the position after
\* the match, 0 if there is none
RECURSIVE MatchAt(_, _, _, _)
RECURSIVE LazyFrom(_, _, _, _)
RECURSIVE GreedyFrom(_, _, _, _, _)
MatchAt(re, k, text, i) ==
    IF k > Len(re.items) THEN i
    ELSE IF re.items[k].k = "lit"
    THEN IF LitAt(re.ignorecase, re.items[k].s, text, i)
         THEN MatchAt(re, k + 1, text, i + Len(re.items[k].s))
         ELSE 0
    ELSE IF re.items[k].k = "dot"
    THEN IF i < DotEnd(text, i) THEN MatchAt(re, k + 1, text, i + 1) ELSE 0
    ELSE IF re.items[k].k = "lazy"
    THEN LazyFrom(re, k, text, i)
    ELSE GreedyFrom(re, k, text, i + re.items[k].min, RunEnd(text, i, re.items[k].c))

\* '.*?' at item k: the shortest extent after which the rest matches
LazyFrom(re, k, text, i) ==
    LET ends == {j \in i..DotEnd(text, i) : MatchAt(re, k + 1, text, j) # 0}
    IN  IF ends = {} THEN 0 ELSE MatchAt(re, k + 1, text, Least(ends))

\* '[^c]*' at item k: the longest extent, ending in lo..hi, after which the
\* rest matches
GreedyFrom(re, k, text, lo, hi) ==
    LET ends == {j \in lo..hi : MatchAt(re, k + 1, text, j) # 0}
    IN  IF ends = {} THEN 0 ELSE MatchAt(re, k + 1, text, Greatest(ends))

\* regex.search(text, i): where the leftmost match from position i on starts,
\* 0 if there is none
search(re, text, i) ==
    LET starts == {j \in i..Len(text) : MatchAt(re, 1, text, j) # 0}
    IN  IF starts = {} THEN 0 ELSE Least(starts)

\* the replacement templates: u'' and r'\1 ' (the match and a space)
Expand(repl, match) == IF repl = "" THEN <<>> ELSE match \o U(<<" ">>)

\* regex.sub(repl, text), from position i on: every match, leftmost first and
\* not overlapping, is replaced; every pattern of the cleaners matches at
\* least one character
RECURSIVE sub(_, _, _, _)
sub(re, repl, text, i) ==
    LET start == search(re, text, i)
        end == MatchAt(re, 1, text, start)
    IN  IF start = 0 THEN SubSeq(text, i, Len(text))
        ELSE SubSeq(text, i, start - 1) \o Expand(repl, SubSeq(text, start, end - 1))
                 \o sub(re, repl, text, end)

\* for regex in regexes: text = regex.sub(u'', text).  The substitutions are
\* applied in the order of the list, those of its first half and then those
\* of its second half on the text t the first half leaves.
RECURSIVE SubAll(_, _)
SubAll(regexes, text) ==
    IF regexes = <<>> THEN text
    ELSE IF Len(regexes) = 1 THEN sub(regexes[1], "", text, 1)
    ELSE CHOOSE out \in
             {SubAll(SubSeq(regexes, (Len(regexes) \div 2) + 1, Len(regexes)), t) :
                 t \in {SubAll(SubSeq(regexes, 1, Len(regexes) \div 2), text)}} : TRUE

\* OSISCleaner, lines 52-53 and 61-64
remove_content_tagnames == <<
    U(<<"n", "o", "t", "e">>), U(<<"m", "i", "l", "e", "s", "t", "o", "n", "e">>),
    U(<<"t", "i", "t", "l", "e">>), U(<<"a", "b", "b", "r">>),
    U(<<"c", "a", "t", "c", "h", "W", "o", "r", "d">>), U(<<"i", "n", "d", "e", "x">>),
    U(<<"r", "d", "g">>), U(<<"r", "d", "g", "G", "r", "o", "u", "p">>),
    U(<<"f", "i", "g", "u", "r", "e">>)>>

keep_content_tagnames == <<
    U(<<"p">>), U(<<"l">>), U(<<"l", "g">>), U(<<"q">>), U(<<"a">>), U(<<"w">>),
    U(<<"d", "i", "v", "i", "n", "e", "N", "a", "m", "e">>),
    U(<<"f", "o", "r", "e", "i", "g", "n">>), U(<<"h", "i">>),
    U(<<"i", "n", "s", "c", "r", "i", "p", "t", "i", "o", "n">>),
    U(<<"m", "e", "n", "t", "i", "o", "n", "e", "d">>), U(<<"n", "a", "m", "e">>),
    U(<<"r", "e", "f", "e", "r", "e", "n", "c", "e">>), U(<<"s", "e", "g">>),
    U(<<"t", "r", "a", "n", "s", "C", "h", "a", "n", "g", "e">>),
    U(<<"s", "a", "l", "u", "t", "e">>), U(<<"s", "i", "g", "n", "e", "d">>),
    U(<<"c", "l", "o", "s", "e", "r">>), U(<<"s", "p", "e", "e", "c", "h">>),
    U(<<"s", "p", "e", "a", "k", "e", "r">>), U(<<"l", "i", "s", "t">>),
    U(<<"i", "t", "e", "m">>), U(<<"t", "a", "b", "l", "e">>), U(<<"h", "e", "a", "d">>),
    U(<<"r", "o", "w">>), U(<<"c", "e", "l", "l">>), U(<<"c", "a", "p", "t", "i", "o", "n">>),
    U(<<"c", "h", "a", "p", "t", "e", "r">>), U(<<"d", "i", "v">>)>>

\* line 56: '<' + tag_name + '.*?' + tag_name + '>'
tag_regex(tag_name) ==
    Regex(<<Lit(U(<<"<">>) \o tag_name), Lazy, Lit(tag_name \o U(<<">">>))>>, TRUE)

\* lines 58 and 71: '<' + tag_name + '[^<]*/>'
single_tag_regex(tag_name) ==
    Regex(<<Lit(U(<<"<">>) \o tag_name), NotChars(ord("<"), 0), Lit(U(<<"/", ">">>))>>, TRUE)

\* line 66: '<' + tag_name + '.*?>'
begin_tag_regex(tag_name) ==
    Regex(<<Lit(U(<<"<">>) \o tag_name), Lazy, Lit(U(<<">">>))>>, TRUE)

\* line 68: '</' + tag_name + '>'
end_tag_regex(tag_name) ==
    Regex(<<Lit(U(<<"<", "/">>) \o tag_name \o U(<<">">>))>>, TRUE)

\* lines 54-72: the regexes in the order they are appended
RECURSIVE RemoveContentRegexes(_)
RemoveContentRegexes(tagnames) ==
    IF tagnames = <<>> THEN <<>>
    ELSE <<tag_regex(Head(tagnames)), single_tag_regex(Head(tagnames))>>
             \o RemoveContentRegexes(Tail(tagnames))

RECURSIVE KeepContentRegexes(_)
KeepContentRegexes(tagnames) ==
    IF tagnames = <<>> THEN <<>>
    ELSE <<begin_tag_regex(Head(tagnames)), end_tag_regex(Head(tagnames)),
           single_tag_regex(Head(tagnames))>>
             \o KeepContentRegexes(Tail(tagnames))

remove_tags_regexes ==
    RemoveContentRegexes(remove_content_tagnames) \o KeepContentRegexes(keep_content_tagnames)

\* line 81: (<[^\>]+type="x-br"[^\>]+\>)
x_br_regex ==
    Regex(<<Lit(U(<<"<">>)), NotChars(ord(">"), 1),
            Lit(U(<<"t", "y", "p", "e", "=", "\"", "x", "-", "b", "r", "\"">>)), NotChars(ord(">"), 1), Lit(U(<<">">>))>>, FALSE)

\* OSISCleaner.clean, lines 81-84
OSISCleaner_clean(text) == SubAll(remove_tags_regexes, sub(x_br_regex, "\\1 ", text, 1))

\* '<C.*?>': a tag of any length
CharTag_AnyLength == Regex(<<Lit(U(<<"<", "C">>)), Lazy, Lit(U(<<">">>))>>, FALSE)

\* GBFCleaner, line 113: '<C.>'
CharTag == Regex(<<Lit(U(<<"<", "C">>)), AnyChar, Lit(U(<<">">>))>>, FALSE)

\* GBFCleaner, lines 101-113
GBF_remove_content_tags == <<
    Regex(<<Lit(U(<<"<", "T", "B", ">">>)), Lazy, Lit(U(<<"<", "T", "b", ">">>))>>, FALSE),
    Regex(<<Lit(U(<<"<", "T", "C", ">">>)), Lazy, Lit(U(<<"<", "T", "c", ">">>))>>, FALSE),
    Regex(<<Lit(U(<<"<", "T", "H", ">">>)), Lazy, Lit(U(<<"<", "T", "h", ">">>))>>, FALSE),
    Regex(<<Lit(U(<<"<", "T", "S", ">">>)), Lazy, Lit(U(<<"<", "T", "s", ">">>))>>, FALSE),
    Regex(<<Lit(U(<<"<", "T", "T", ">">>)), Lazy, Lit(U(<<"<", "T", "t", ">">>))>>, FALSE),
    Regex(<<Lit(U(<<"<", "T", "N", ">">>)), Lazy, Lit(U(<<"<", "T", "n", ">">>))>>, FALSE),
    Regex(<<Lit(U(<<"<", "T", "A", ">">>)), Lazy, Lit(U(<<"<", "T", "a", ">">>))>>, FALSE),
    Regex(<<Lit(U(<<"<", "T", "P", ">">>)), Lazy, Lit(U(<<"<", "T", "p", ">">>))>>, FALSE),
    Regex(<<Lit(U(<<"<", "F", "B", ">">>)), Lazy, Lit(U(<<"<", "f", "b", ">">>))>>, FALSE),
    Regex(<<Lit(U(<<"<", "F", "C", ">">>)), Lazy, Lit(U(<<"<", "f", "c", ">">>))>>, FALSE),
    Regex(<<Lit(U(<<"<", "F", "I", ">">>)), Lazy, Lit(U(<<"<", "f", "i", ">">>))>>, FALSE),
    Regex(<<Lit(U(<<"<", "F", "N">>)), Lazy, Lit(U(<<">">>)), Lazy, Lit(U(<<"<", "f", "n", ">">>))>>, FALSE),
    Regex(<<Lit(U(<<"<", "F", "O", ">">>)), Lazy, Lit(U(<<"<", "f", "o", ">">>))>>, FALSE),
    Regex(<<Lit(U(<<"<", "F", "R", ">">>)), Lazy, Lit(U(<<"<", "f", "r", ">">>))>>, FALSE),
    Regex(<<Lit(U(<<"<", "F", "S", ">">>)), Lazy, Lit(U(<<"<", "f", "s", ">">>))>>, FALSE),
    Regex(<<Lit(U(<<"<", "F", "U", ">">>)), Lazy, Lit(U(<<"<", "f", "u", ">">>))>>, FALSE),
    Regex(<<Lit(U(<<"<", "F", "V", ">">>)), Lazy, Lit(U(<<"<", "f", "v", ">">>))>>, FALSE),
    Regex(<<Lit(U(<<"<", "R", "F", ">">>)), Lazy, Lit(U(<<"<", "R", "f", ">">>))>>, FALSE),
    Regex(<<Lit(U(<<"<", "R", "B", ">">>))>>, FALSE),
    Regex(<<Lit(U(<<"<", "R", "P">>)), Lazy, Lit(U(<<">">>))>>, FALSE),
    Regex(<<Lit(U(<<"<", "R", "p">>)), Lazy, Lit(U(<<">">>))>>, FALSE),
    Regex(<<Lit(U(<<"<", "R", "X">>)), Lazy, Lit(U(<<">">>))>>, FALSE),
    Regex(<<Lit(U(<<"<", "R", "x">>)), Lazy, Lit(U(<<">">>))>>, FALSE),
    Regex(<<Lit(U(<<"<", "H">>)), Lazy, Lit(U(<<">">>))>>, FALSE),
    Regex(<<Lit(U(<<"<", "B">>)), Lazy, Lit(U(<<">">>))>>, FALSE),
    Regex(<<Lit(U(<<"<", "Z", "Z", ">">>))>>, FALSE),
    Regex(<<Lit(U(<<"<", "D">>)), Lazy, Lit(U(<<">">>))>>, FALSE),
    Regex(<<Lit(U(<<"<", "J">>)), Lazy, Lit(U(<<">">>))>>, FALSE),
    Regex(<<Lit(U(<<"<", "P">>)), AnyChar, Lit(U(<<">">>))>>, FALSE),
    Regex(<<Lit(U(<<"<", "W">>)), Lazy, Lit(U(<<">">>))>>, FALSE),
    Regex(<<Lit(U(<<"<", "S">>)), Lazy, Lit(U(<<">">>))>>, FALSE),
    Regex(<<Lit(U(<<"<", "N">>)), Lazy, Lit(U(<<">">>))>>, FALSE),
    CharTag>>

\* GBFCleaner.clean, lines 125-128
GBFCleaner_clean(text) == SubAll(GBF_remove_content_tags, text)

\* '<.*?>' without its opening bracket
AnyTag_Unanchored == Regex(<<Lazy, Lit(U(<<">">>))>>, FALSE)

\* ThMLCleaner, line 145: '<.*?>'
AnyTag == Regex(<<Lit(U(<<"<">>)), Lazy, Lit(U(<<">">>))>>, FALSE)

\* ThMLCleaner, line 145
ThML_remove_content_tags == <<
    Regex(<<Lit(U(<<"<", "s", "c", "r", "i", "p", "R", "e", "f">>)), Lazy, Lit(U(<<">">>)), Lazy, Lit(U(<<"<", "/", "s", "c", "r", "i", "p", "R", "e", "f", ">">>))>>, FALSE),
    Regex(<<Lit(U(<<"<", "s", "c", "r", "i", "p", "C", "o", "m">>)), Lazy, Lit(U(<<">">>)), Lazy, Lit(U(<<"<", "/", "s", "c", "r", "i", "p", "C", "o", "m", ">">>))>>, FALSE),
    AnyTag>>

\* ThMLCleaner.clean, lines 157-159
ThMLCleaner_clean(text) == SubAll(ThML_remove_content_tags, text)

\* bible.py lines 184-192: the cleaner of a source type
SourceTypes == {"OSIS", "GBF", "ThML"}

\* self._cleaner.clean(text)
clean(text) ==
    IF cleaner = "ThML" THEN ThMLCleaner_clean(text)
    ELSE IF cleaner = "GBF" THEN GBFCleaner_clean(text)
    ELSE OSISCleaner_clean(text)

----------------------------------------------------------------------------
(* The cleaner of a Bible opened with each source type, applied to the     *)
(* text of a verse as get_iter applies it (bible.py line 243).             *)

\* the longest text is made of MaxPieces pieces
MaxPieces == 3

\* plain text, a bracket, a newline, and tags of each kind
Pieces == {
    U(<<"a">>), U(<<">">>), <<10>>,
    U(<<"<", "n", "o", "t", "e", ">">>), U(<<"<", "/", "n", "o", "t", "e", ">">>),
    U(<<"<", "p", ">">>), U(<<"<", "/", "p", ">">>), U(<<"<", "C", "A", "4", "1", ">">>),
    U(<<"<", "C", "U", "0", "0", "e", "9", ">">>)}

RECURSIVE Concat(_)
Concat(pieces) == IF pieces = <<>> THEN <<>> ELSE Head(pieces) \o Concat(Tail(pieces))

\* a title and a note among plain text
TitleAndNote ==
    U(<<"<", "t", "i", "t", "l", "e", ">", "P", "s", "a", "l", "m", " ", "2", "3", "<", "/", "t", "i", "t", "l", "e", ">", "A", " ", "P", "s", "a", "l", "m", " ", "o", "f", " ", "D", "a", "v", "i", "d", ".", "<", "n", "o", "t", "e", ">", "o", "m", "i", "t", "<", "/", "n", "o", "t", "e", ">", "T", "h", "e", " ", "L", "O", "R", "D", " ", "i", "s", " ", "m", "y", " ", "s", "h", "e", "p", "h", "e", "r", "d">>)

\* the readings of a reading group
ReadingGroup ==
    U(<<"<", "r", "d", "g", "G", "r", "o", "u", "p", ">", "<", "r", "d", "g", ">", "b", "<", "/", "r", "d", "g", ">", "<", "r", "d", "g", ">", "c", "<", "/", "r", "d", "g", ">", "<", "/", "r", "d", "g", "G", "r", "o", "u", "p", ">", "d">>)

\* a line break, a structural tag in upper case, and a self-closing note
LineBreak ==
    U(<<"a", "<", "l", " ", "t", "y", "p", "e", "=", "\"", "x", "-", "b", "r", "\"", "/", ">", "b", "<", "D", "I", "V", "I", "N", "E", "N", "A", "M", "E", ">", "c", "<", "/", "d", "i", "v", "i", "n", "e", "N", "a", "m", "e", ">", "<", "n", "o", "t", "e", " ", "n", "=", "\"", "1", "\"", "/", ">", "d">>)

\* GBF: a title block, a footnote, formatting codes and character references
GBFVerse ==
    U(<<"<", "T", "B", ">", "t", "<", "T", "b", ">", "a", "<", "F", "N", "1", ">", "n", "<", "f", "n", ">", "b", "<", "F", "I", ">", "i", "<", "F", "i", ">", "c", "<", "C", "M", ">", "<", "C", "A", "4", "1", ">", "<", "C", "U", "0", "0", "e", "9", ">", "<", "P", "P", ">", "d">>)

\* ThML: a scripture reference with an attribute, a tag, character references
ThMLVerse ==
    U(<<"<", "s", "c", "r", "i", "p", "R", "e", "f", " ", "p", "a", "s", "s", "a", "g", "e", "=", "\"", "x", "\"", ">", "r", "<", "/", "s", "c", "r", "i", "p", "R", "e", "f", ">", "a", "<", "b", ">", "c", "<", "/", "b", ">", "<", "C", "A", "4", "1", ">", "<", "C", "U", "0", "0", "e", "9", ">", "d">>)

Samples == {TitleAndNote, ReadingGroup, LineBreak, GBFVerse, ThMLVerse}

Texts == {Concat(pieces) : pieces \in SeqsUpTo(Pieces, MaxPieces)} \cup Samples

InitCleaner ==
    /\ versification = "kjv"
    /\ book = Gen
    /\ book_offsets = NoOffsets
    /\ OpenedEmpty(<<"ot">>)
    /\ cleaner \in SourceTypes
    /\ NoCall

\* self._cleaner.clean(text)
Clean ==
    /\ call.op = "idle"
    /\ \E text \in Texts :
        \E r \in {clean(text)} :
            /\ call' = [op |-> "clean", text |-> text]
            /\ ret' = Ok(Str(r))
    /\ UNCHANGED <<threadVars, structVars, moduleVars, reads, looked, pending>>

NextCleaner == Clean \/ Return

SpecCleaner == InitCleaner /\ [][NextCleaner]_vars

----------------------------------------------------------------------------
(* The queries of an opened Bible: get_iter, its iterator taken text by     *)
(* text to its end, and get, which joins the texts of that iteration.      *)

HasChar(text, c) == \E i \in 1..Len(text) : text[i] = c

\* bible.py lines 240-244: what get_iter yields for the text of one index;
\* '<' in text raises TypeError when text is a byte string
yield(text, cl) ==
    IF text = None THEN Ok(None)
    ELSE IF cl /\ text.t = "bytes" THEN Raise("TypeError", "in")
    ELSE IF cl /\ HasChar(text.s, 60) THEN Ok(Str(clean(text.s)))
    ELSE Ok(text)

\* bible.py line 237: the lookups of indicies.items(), testament by testament
RECURSIVE Lookups(_)
Lookups(refs) ==
    IF refs = <<>> THEN <<>>
    ELSE [i \in 1..Len(Head(refs).idxs) |->
             [testament |-> Head(refs).testament, index |-> Head(refs).idxs[i]]]
         \o Lookups(Tail(refs))

\* bible.py lines 239-244: one pass of the loop, out being the texts yielded
\* so far; the text is looked up, cleaned and yielded
IterStep(t, idx, cl, out) ==
    IF t \notin DOMAIN testaments
    THEN [ret |-> [Raise("KeyError", "testament") EXCEPT !.val = out],
          encoding |-> encoding, pos |-> pos, reads |-> <<>>]
    ELSE LET o == text_for_index(module_type, compress_type, testaments[t], encoding,
                                 pos[t], idx)
             y == IF o.ret.ok THEN yield(o.ret.val, cl) ELSE o.ret
         IN  [ret |-> IF ~y.ok THEN [y EXCEPT !.val = out]
                      ELSE IF y.val = None THEN Ok(out)
                      ELSE Ok(Append(out, y.val)),
              encoding |-> o.encoding,
              pos |-> [pos EXCEPT ![t] = o.pos],
              reads |-> TagReads(t, o.reads)]

\* the references of the queries
FacadeBooks ==
    {None} \cup {One(n) : n \in {Gen.name, lower(Gen.osis_name), Obad.name, UnknownName}}
           \cup {List(<<Jude.name, Gen.name>>), List(<<Gen.name, Jude.name>>),
                 List(<<Gen.name, Gen.name>>), List(<<>>)}
FacadeChapters == {None, One(1), List(<<2, 1>>), One(4)}
FacadeVerses == {None, One(1), List(<<2, 1>>), One(3)}

InitFacade ==
    /\ versification \in Versifications
    /\ book = Gen
    /\ book_offsets = NoOffsets
    /\ \E mt \in {"rawtext", "ztext"}, order \in LoadOrders :
            Opened(mt, "ZIP", NoEncoding, order)
    /\ cleaner = "OSIS"
    /\ NoCall

\* bible.py line 235: the reference is resolved when the iteration starts;
\* ret holds the texts yielded so far
GetIter ==
    /\ call.op = "idle"
    /\ \E books \in FacadeBooks, chapters \in FacadeChapters, verses \in FacadeVerses,
          cl \in BOOLEAN :
        \E r \in {ref_to_indicies(structure, book_offsets, books, chapters, verses)} :
            /\ call' = [op |-> "get_iter", books |-> books, chapters |-> chapters,
                        verses |-> verses, clean |-> cl]
            /\ ret' = IF r.ret.ok THEN Ok(<<>>) ELSE r.ret
            /\ pending' = IF r.ret.ok THEN Lookups(r.ret.val) ELSE <<>>
            /\ book_offsets' = r.offs
            /\ UNCHANGED <<threadVars, versification, loaded, book, moduleVars, reads, looked>>

\* bible.py lines 237-244: the consumer (get, line 258) takes the next text;
\* an exception ends the iteration
IterNext ==
    /\ call.op = "get_iter"
    /\ pending # <<>>
    /\ \E st \in {IterStep(Head(pending).testament, Head(pending).index, call.clean, ret.val)} :
            /\ ret' = st.ret
            /\ encoding' = st.encoding
            /\ pos' = st.pos
            /\ reads' = reads \o st.reads
            /\ looked' = Append(looked, Head(pending))
            /\ pending' = IF st.ret.ok THEN Tail(pending) ELSE <<>>
    /\ UNCHANGED <<threadVars, structVars, module_type, compress_type, testaments, cleaner, call>>

\* the separators get is called with: the default newline, a space
JoinStrings == {<<10>>, <<32>>}

\* str.join of line 259: the texts with the separator between them; a byte
\* string among them raises TypeError
RECURSIVE join(_, _)
join(sep, output) ==
    IF output = <<>> THEN Ok(Str(<<>>))
    ELSE IF Head(output).t = "bytes" THEN Raise("TypeError", "join")
    ELSE IF Len(output) = 1 THEN Ok(Head(output))
    ELSE LET r == join(sep, Tail(output))
         IN  IF r.ok THEN Ok(Str(Head(output).s \o sep \o r.val.s)) ELSE r

\* bible.py lines 257-259: get runs get_iter with its arguments to its end
\* (line 258, the steps above) and joins the texts it yielded; an exception
\* of the iteration leaves get as it left the iteration
Get ==
    /\ call.op = "get_iter"
    /\ pending = <<>>
    /\ ret.ok
    /\ \E sep \in JoinStrings :
            /\ call' = [op |-> "get", books |-> call.books, chapters |-> call.chapters,
                        verses |-> call.verses, clean |-> call.clean, join |-> sep]
            /\ ret' = join(sep, ret.val)
    /\ UNCHANGED <<threadVars, structVars, moduleVars, reads, looked, pending>>

NextFacade == GetIter \/ IterNext \/ Get \/ Return

SpecFacade == InitFacade /\ [][NextFacade]_vars

----------------------------------------------------------------------------
(* Opening a module: SwordBible._setup loads the testaments whose files    *)
(* exist.  A file is named by its testament and its role.                  *)

\* the files a testament of the module type is made of
FilesOf(mt) == IF IsRaw(mt) THEN {"v2l", "text"} ELSE {"v2b", "b2l", "text"}

ModuleFiles(mt) == {"ot", "nt"} \X FilesOf(mt)

\* Testament.__init__ (lines 96-102): io.open raises IOError on a file that
\* is not there
open_testament(mt, alg, name, present) ==
    IF \A f \in FilesOf(mt) : <<name, f>> \in present
    THEN Ok(Testament(mt, alg))
    ELSE Raise("IOError", name)

\* self._testaments = {}: the names in insertion order and the testaments
NoTestaments == [order |-> <<>>, files |-> EmptyDict]

\* _load_testament (lines 285-301, 360-378): an IOError is ignored and the
\* testament is not saved
load_testament(mt, alg, tms, name, present) ==
    LET t == open_testament(mt, alg, name, present)
    IN  IF t.ok THEN [order |-> Append(tms.order, name), files |-> DictSet(tms.files, name, t.val)]
        ELSE tms

\* line 179: if not self._testaments
NoneLoaded_EitherMissing(tms) == Len(tms.order) < 2

NoneLoaded(tms) == tms.order = <<>>

\* SwordBible._setup (lines 176-180): the testaments of the module, or IOError
setup(mt, alg, present) ==
    LET tms == load_testament(mt, alg, load_testament(mt, alg, NoTestaments, "ot", present),
                              "nt", present)
    IN  IF NoneLoaded(tms) THEN Raise("IOError", "module") ELSE Ok(tms)

\* the class is chosen (SwordBible.__new__) and nothing is loaded yet
InitOpen ==
    /\ versification \in Versifications
    /\ book = Gen
    /\ book_offsets = NoOffsets
    /\ module_type \in ModuleTypes
    /\ compress_type = "ZIP"
    /\ encoding = NoEncoding
    /\ loaded = <<>>
    /\ testaments = EmptyDict
    /\ pos = EmptyDict
    /\ cleaner = "OSIS"
    /\ NoCall

\* SwordBible.__init__ over a module path holding the files present
Open ==
    /\ call.op = "idle"
    /\ loaded = <<>>
    /\ \E present \in SUBSET ModuleFiles(module_type) :
        \E r \in {setup(module_type, compress_type, present)} :
            /\ call' = [op |-> "open", present |-> present]
            /\ ret' = IF r.ok THEN Ok(<<>>) ELSE r
            /\ loaded' = IF r.ok THEN r.val.order ELSE <<>>
            /\ testaments' = IF r.ok THEN r.val.files ELSE EmptyDict
            /\ pos' = IF r.ok THEN [t \in DOMAIN r.val.files |-> StartPos(module_type)]
                      ELSE EmptyDict
    /\ UNCHANGED <<threadVars, versification, book, book_offsets, module_type, compress_type, encoding,
                   cleaner, reads, looked, pending>>

NextOpen == Open \/ Return

SpecOpen == InitOpen /\ [][NextOpen]_vars

----------------------------------------------------------------------------
(* The layout of a testament's linear indices, stated on its own: a book   *)
(* at base offset o holds its heading at o, then for each chapter a        *)
(* heading slot followed by one slot per verse.                            *)

\* the slot, counted from the book's offset, of verse v of chapter c (1-based)
VerseSlot(b, c, v) ==
    1 + Sum([k \in 1..(c - 1) |-> b.chapter_lengths[k] + 1]) + v

\* the indices of every verse of chapter c
ChapterVerses(b, c, offset) ==
    [v \in 1..b.chapter_lengths[c] |-> offset + VerseSlot(b, c, v)]

RECURSIVE ChaptersVerses(_, _, _)
ChaptersVerses(b, chs, offset) ==
    IF chs = <<>> THEN <<>>
    ELSE ChapterVerses(b, Head(chs), offset) \o ChaptersVerses(b, Tail(chs), offset)

StrictlyIncreasing(s) == \A i \in 1..(Len(s) - 1) : s[i] < s[i + 1]

\* the chapters a get_indicies call selects
Selected == IF call.chapters.kind = "none" THEN [i \in 1..Len(book.chapter_lengths) |-> i]
            ELSE call.chapters.v

RealChapters(chs) == \A i \in 1..Len(chs) : chs[i] \in 1..Len(book.chapter_lengths)

CaseEq(a, b) == Len(a) = Len(b) /\ \A i \in 1..Len(a) : LowerChar(a[i]) = LowerChar(b[i])

\* the (testament, book) pairs of the opened structure
StructureBooks ==
    UNION {{<<loaded[i], canons[versification][loaded[i]][j]>> :
               j \in 1..Len(canons[versification][loaded[i]])} : i \in 1..Len(loaded)}

----------------------------------------------------------------------------
(* Claims. *)

\* C1: ref_to_indicies with books, chapters and verses all unset returns, for
\* each loaded testament in load order, a strictly increasing sequence of
\* linear indices (hence without duplicates) holding one index per verse of
\* the testament.
C1_AllVersesStrictlyIncreasing ==
    (call.op = "ref_to_indicies" /\ call.books = None /\ call.chapters = None
        /\ call.verses = None)
    => /\ ret.ok
       /\ Len(ret.val) = Len(loaded)
       /\ \A k \in 1..Len(loaded) :
            LET bks == canons[versification][loaded[k]] IN
            /\ ret.val[k].testament = loaded[k]
            /\ StrictlyIncreasing(ret.val[k].idxs)
            /\ Len(ret.val[k].idxs) = Sum([j \in 1..Len(bks) |-> Sum(bks[j].chapter_lengths)])

C1_Witness ==
    /\ call.op = "ref_to_indicies" /\ call.books = None /\ call.chapters = None
    /\ call.verses = None
    /\ Len(loaded) = 2
    /\ ret.ok /\ Len(ret.val) = 2 /\ Len(ret.val[1].idxs) > 5

\* C2: in get_indicies a verse filter is honored when exactly one chapter is
\* selected (the verses asked for, in the order given) and ignored when the
\* selection holds another number of chapters, every verse of each selected
\* chapter being returned then.
C2_VerseFilterSingleChapterOnly ==
    call.op = "get_indicies"
    => /\ (Len(Selected) = 1 /\ RealChapters(Selected) /\ call.verses # None /\ ret.ok)
          => ret.val = [i \in 1..Len(call.verses.v) |->
                          call.offset + VerseSlot(book, Selected[1], call.verses.v[i])]
       /\ (Len(Selected) # 1 /\ RealChapters(Selected))
          => (ret.ok /\ ret.val = ChaptersVerses(book, Selected, call.offset))
       /\ Len(Selected) # 1
          => ret = get_indicies(book, call.chapters, None, call.offset)

C2_Witness ==
    /\ call.op = "get_indicies"
    /\ call.chapters = List(<<2, 1>>) /\ call.verses = List(<<1>>)
    /\ ret.ok /\ Len(ret.val) > 1

C2_WitnessSingle ==
    /\ call.op = "get_indicies"
    /\ Len(Selected) = 1 /\ call.verses.kind = "list" /\ Len(call.verses.v) = 2
    /\ ret.ok /\ Len(ret.val) = 2 /\ ret.val[1] > ret.val[2]

\* C3: get_indicies raises the chapter-out-of-range ValueError, and returns
\* no indices, whenever a requested chapter number exceeds the number of
\* chapters of the book.
C3_ChapterOutOfRange ==
    (call.op = "get_indicies"
        /\ \E i \in 1..Len(Selected) : Selected[i] > Len(book.chapter_lengths))
    => (~ret.ok /\ ret.exc = "ValueError" /\ ret.why = "chapters" /\ ret.val = <<>>)

C3_Witness ==
    /\ call.op = "get_indicies"
    /\ call.chapters.kind = "list" /\ Len(call.chapters.v) = 2
    /\ call.chapters.v[1] = 1 /\ call.chapters.v[2] = Len(book.chapter_lengths) + 1
    /\ ~ret.ok /\ ret.why = "chapters"

\* C4: for a single-chapter selection with a verse list, get_indicies raises
\* the verse-out-of-range ValueError exactly when the maximum requested verse
\* exceeds the chapter's length, whatever the position of that maximum in
\* the list.
C4_MaxVerseChecked ==
    (call.op = "get_indicies" /\ Len(Selected) = 1 /\ RealChapters(Selected)
        /\ call.verses # None /\ call.verses.v # <<>>)
    => ((~ret.ok /\ ret.exc = "ValueError" /\ ret.why = "verses")
        <=> SetMax({call.verses.v[i] : i \in 1..Len(call.verses.v)})
               > book.chapter_lengths[Selected[1]])

\* C6: find_book returns a testament and book of the structure that the name
\* denotes (it equals, case-insensitively, the book's full name, canonical
\* abbreviation or preferred abbreviation) whenever there is one, and raises
\* the book-not-found ValueError when no book of the structure matches.
C6_FindBook ==
    call.op = "find_book"
    => LET matches == {p \in StructureBooks :
                          \/ CaseEq(call.name, p[2].name)
                          \/ CaseEq(call.name, p[2].osis_name)
                          \/ CaseEq(call.name, p[2].preferred_abbreviation)}
       IN  /\ matches # {} => (ret.ok /\ <<ret.val.testament, ret.val.book>> \in matches)
           /\ matches = {} => (~ret.ok /\ ret.exc = "ValueError" /\ ret.why = "book")

C6_Witness ==
    /\ call.op = "find_book"
    /\ call.name = upper(Gen.preferred_abbreviation)
    /\ ret.ok /\ ret.val.book = Gen /\ ret.val.testament = "ot"

C6_WitnessNotFound ==
    /\ call.op = "find_book"
    /\ call.name = Mark.name /\ loaded = <<"ot">>
    /\ ~ret.ok

\* the base offset of book j of a testament: 2 for the first book, each
\* book taking a heading slot and, per chapter, a heading slot and its verses
LayoutOffset(bks, j) ==
    2 + Sum([k \in 1..(j - 1) |-> 1 + Sum([c \in 1..Len(bks[k].chapter_lengths) |->
                                              bks[k].chapter_lengths[c] + 1])])

\* the book names a query asks for: every book of the loaded testaments, in
\* canon order, when books is unset
RECURSIVE CanonNames(_)
CanonNames(ts) ==
    IF ts = <<>> THEN <<>>
    ELSE [j \in 1..Len(canons[versification][Head(ts)]) |->
             canons[versification][Head(ts)][j].name] \o CanonNames(Tail(ts))

AskedNames ==
    IF call.books.kind = "none" THEN CanonNames(loaded) ELSE call.books.v

\* testament, book and position in the testament that a name denotes
Denotes(name, t, j) ==
    /\ t \in Names(loaded) /\ j \in 1..Len(canons[versification][t])
    /\ LET b == canons[versification][t][j]
       IN  \/ CaseEq(name, b.name) \/ CaseEq(name, b.osis_name)
           \/ CaseEq(name, b.preferred_abbreviation)

TestamentOf(name) == CHOOSE t \in Names(loaded) : \E j \in 1..2 : Denotes(name, t, j)

\* the indices of one asked book: chapters in the order asked, the verses of
\* a chapter in the order asked or ascending
AskedIdxs(name) ==
    LET t   == TestamentOf(name)
        j   == CHOOSE j \in 1..Len(canons[versification][t]) : Denotes(name, t, j)
        b   == canons[versification][t][j]
        off == LayoutOffset(canons[versification][t], j)
        chs == IF call.chapters.kind = "none" THEN [i \in 1..Len(b.chapter_lengths) |-> i]
               ELSE call.chapters.v
        vs  == call.verses.v
    IN  IF Len(chs) = 1 /\ call.verses # None
        THEN [i \in 1..Len(vs) |-> off + VerseSlot(b, chs[1], vs[i])]
        ELSE ChaptersVerses(b, chs, off)

\* the lookups of the asked books that lie in testament t, in the order asked
RECURSIVE AskedIn(_, _)
AskedIn(t, names) ==
    IF names = <<>> THEN <<>>
    ELSE (IF TestamentOf(Head(names)) = t
          THEN LET idxs == AskedIdxs(Head(names))
               IN  [i \in 1..Len(idxs) |-> [testament |-> t, index |-> idxs[i]]]
          ELSE <<>>) \o AskedIn(t, Tail(names))

\* testament by testament, a testament coming at its first asked book
RECURSIVE AskedLookups(_, _)
AskedLookups(names, done) ==
    IF names = <<>> THEN <<>>
    ELSE LET t == TestamentOf(Head(names)) IN
         IF t \in done THEN AskedLookups(Tail(names), done)
         ELSE AskedIn(t, names) \o AskedLookups(Tail(names), done \cup {t})

IsPrefix(s, t) == Len(s) <= Len(t) /\ s = SubSeq(t, 1, Len(s))

\* C5: with books unset a query expands to every book of the loaded
\* testaments in canon order; the indices of a testament come in the order
\* of the expansion (books as asked, then chapters, then verses), and
\* get_iter looks the indices up testament by testament in exactly that
\* order: at every point of the iteration the lookups made followed by the
\* lookups still to make are the expansion.
C5_LookupsFollowExpansionOrder ==
    (call.op = "get_iter"
        /\ ref_to_indicies(structure, NoOffsets, call.books, call.chapters, call.verses).ret.ok)
    => /\ IsPrefix(looked, AskedLookups(AskedNames, {}))
       /\ ret.ok => /\ looked \o pending = AskedLookups(AskedNames, {})
                    /\ Len(ret.val) = Len(looked)

C5_Witness ==
    /\ call.op = "get_iter" /\ call.books = None /\ call.chapters = None
    /\ Len(loaded) = 2 /\ ret.ok /\ pending = <<>>
    /\ Len(looked) > 5
    /\ looked[1].testament = "ot" /\ looked[Len(looked)].testament = "nt"

C5_WitnessAsked ==
    /\ call.op = "get_iter" /\ call.books = List(<<Jude.name, Gen.name>>)
    /\ call.chapters = One(1) /\ call.verses = List(<<2, 1>>)
    /\ ret.ok /\ pending = <<>> /\ Len(looked) = 4
    /\ looked[1].testament = "nt" /\ looked[3].testament = "ot"
    /\ looked[3].index > looked[4].index

\* the record size of each decoder variant and the index file it reads
RecordSize ==
    CASE module_type = "rawtext" -> 6 [] module_type = "rawtext4" -> 8
      [] module_type = "ztext" -> 10 [] module_type = "ztext4" -> 12

IndexFileSize(t) ==
    IF module_type \in {"rawtext", "rawtext4"} THEN Len(testaments[t].v2l)
    ELSE Len(testaments[t].v2b)

\* the text a module returns for the given bytes, its encoding being left as it is
DecodedAs(enc, bs) == IF enc = NoEncoding THEN Utf8Strict(bs).val ELSE DecodeReplace(enc, bs)

\* C7: in each of the four decoder variants (record size 6, 8, 10, 12) a
\* lookup of index i with record_size * (i + 1) > index_file_size returns the
\* empty text, reads no file and raises nothing.
C7_IndexPastEndIsEmpty ==
    (call.op = "text_for_index"
        /\ RecordSize * (call.index + 1) > IndexFileSize(call.testament))
    => (ret = Ok(Str(<<>>)) /\ reads = <<>>)

C7_Witness ==
    /\ call.op = "text_for_index"
    /\ module_type = "ztext4"
    /\ RecordSize * (call.index + 1) > IndexFileSize(call.testament)
    /\ RecordSize * call.index <= IndexFileSize(call.testament)
    /\ ret = Ok(Str(<<>>))

\* C8: in the raw variants a lookup whose index record (start, length) has
\* start + length <= text_file_size returns the bytes [start, start + length)
\* of the text file, decoded; with start + length > text_file_size it
\* returns empty.
C8_RawReturnsTheRecordBytes ==
    (call.op = "text_for_index" /\ module_type \in {"rawtext", "rawtext4"}
        /\ call.index < Len(VerseRecords))
    => LET start  == VerseRecords[call.index + 1][1]
           length == VerseRecords[call.index + 1][2]
           text   == testaments[call.testament].text
       IN  /\ ret.ok
           /\ start + length <= Len(text)
              => ret.val = Str(DecodedAs(encoding, SubSeq(text, start + 1, start + length)))
           /\ start + length > Len(text) => ret.val.s = <<>>

C8_Witness ==
    /\ call.op = "text_for_index" /\ module_type = "rawtext"
    /\ call.index < Len(VerseRecords)
    /\ VerseRecords[call.index + 1] = <<0, 2>>
    /\ pos[call.testament].text = 2
    /\ ret = Ok(Str(<<72, 105>>))

\* C9: in the compressed variants (DEFLATE module) a lookup returns the slice
\* [start, start + length) of the decompressed block when it lies inside the
\* block and returns empty when it does not, never a truncated slice.
C9_CompressedSliceAllOrNothing ==
    (call.op = "text_for_index" /\ module_type \in {"ztext", "ztext4"}
        /\ compress_type = "ZIP" /\ call.index < Len(VerseRecords))
    => LET start  == VerseRecords[call.index + 1][1]
           length == VerseRecords[call.index + 1][2]
       IN  /\ ret.ok
           /\ start + length <= Len(PlainText)
              => ret.val = Str(DecodedAs(encoding, SubSeq(PlainText, start + 1, start + length)))
           /\ start + length > Len(PlainText) => ret.val.s = <<>>

\* C10: a lookup of a module opened with compression LZSS that reaches a
\* compressed block raises the unsupported-compression error
\* (NotImplementedError); it returns neither empty nor decoded text.
C10_LzssRaisesUnsupported ==
    (call.op = "text_for_index" /\ module_type \in {"ztext", "ztext4"}
        /\ compress_type = "LZSS" /\ call.index < Len(VerseRecords))
    => (~ret.ok /\ ret.exc = "NotImplementedError")

\* C11: a compressed lookup decompresses the block with the algorithm the
\* module declares (DEFLATE for ZIP, bzip2 for BZIP2, LZMA for XZ): a verse
\* lying inside a block compressed with the declared algorithm is returned.
C11_DeclaredAlgorithmApplied ==
    (call.op = "text_for_index" /\ module_type \in {"ztext", "ztext4"}
        /\ compress_type \in {"ZIP", "BZIP2", "XZ"} /\ call.index < Len(VerseRecords))
    => LET start  == VerseRecords[call.index + 1][1]
           length == VerseRecords[call.index + 1][2]
       IN  start + length <= Len(PlainText)
           => ret = Ok(Str(DecodedAs(encoding, SubSeq(PlainText, start + 1, start + length))))

\* C12: the encoding of a module is resolved by its first decode: once a
\* lookup has decoded bytes (it returned a text that is not empty) the
\* encoding state is UTF-8 or the single-byte fallback, never undetermined.
C12_EncodingResolvedByFirstDecode ==
    (call.op = "text_for_index" /\ ret.ok /\ ret.val.t = "str" /\ ret.val.s # <<>>)
    => encoding \in {"utf-8", "cp1252"}

\* C13: get_iter never yields an empty string: an index whose text is empty
\* is skipped, so every text yielded holds at least one character.
C13_NoEmptyTextYielded ==
    call.op = "get_iter" => \A i \in 1..Len(ret.val) : ret.val[i].s # <<>>

\* C14: a query over a raw module whose reference resolves never raises,
\* with clean true or false: a verse whose record points past the end of
\* the text file contributes an empty text and the iteration goes on.
C14_TextPastEndDoesNotRaise ==
    (call.op \in {"get_iter", "get"} /\ module_type \in {"rawtext", "rawtext4"}
        /\ ref_to_indicies(structure, NoOffsets, call.books, call.chapters, call.verses).ret.ok)
    => ret.ok

\* C15: opening a module succeeds exactly when every file of the OT or
\* every file of the NT can be opened, the testament map then holding the
\* testaments that could be opened and no other; it fails with an I/O error
\* exactly when neither can.
C15_OpensWithEitherTestament ==
    call.op = "open"
    => LET roles  == IF module_type \in {"rawtext", "rawtext4"} THEN {"v2l", "text"}
                     ELSE {"v2b", "b2l", "text"}
           usable == {t \in {"ot", "nt"} : \A f \in roles : <<t, f>> \in call.present}
       IN  /\ ret.ok <=> usable # {}
           /\ ret.ok => (Names(loaded) = usable /\ DOMAIN testaments = usable)
           /\ ~ret.ok => (ret.exc = "IOError" /\ loaded = <<>> /\ DOMAIN testaments = {})

C15_Witness ==
    /\ call.op = "open" /\ ret.ok
    /\ loaded = <<"nt">>
    /\ \E f \in FilesOf(module_type) : <<"ot", f>> \in call.present

C15_WitnessNeither ==
    /\ call.op = "open" /\ ~ret.ok /\ ret.exc = "IOError"
    /\ call.present # {}

\* C16: a query that raises a reference error (unknown book, chapter or
\* verse out of range) reads no file and leaves the encoding, the file
\* positions and the files as they were, and the books resolve after it to
\* the indices they resolved to before it: a following query returns what
\* it would have returned had the failed query not been made.
C16_ReferenceErrorKeepsState ==
    [][(call.op = "idle" /\ call'.op = "get_iter" /\ ~ret'.ok)
       => /\ ret'.exc = "ValueError"
          /\ UNCHANGED <<threadVars, encoding, pos, testaments, loaded, versification, module_type,
                         compress_type, cleaner>>
          /\ reads' = <<>> /\ looked' = <<>> /\ pending' = <<>>
          /\ OffsetsAfter(structure, book_offsets') = OffsetsAfter(structure, book_offsets)
          /\ ref_to_indicies(structure, book_offsets', None, None, None).ret
                = ref_to_indicies(structure, book_offsets, None, None, None).ret]_vars

C16_Witness ==
    /\ call.op = "get_iter" /\ ~ret.ok /\ ret.exc = "ValueError" /\ ret.why = "chapters"
    /\ call.books = One(Gen.name)
    /\ book_offsets.set /\ encoding = "cp1252"

C16_WitnessVerse ==
    /\ call.op = "get_iter" /\ ~ret.ok /\ ret.exc = "ValueError" /\ ret.why = "verses"

C16_WitnessBook ==
    /\ call.op = "get_iter" /\ ~ret.ok /\ ret.exc = "ValueError" /\ ret.why = "book"
    /\ call.books = One(Obad.name)

\* C17: each of the three cleaners returns a text that holds no '<' as it is,
\* so that get_iter, which leaves the cleaner out for such a text, yields what
\* the cleaner would have returned.
C17_NoTagStartUnchanged ==
    (call.op = "clean" /\ ~HasChar(call.text, ord("<"))) => ret = Ok(Str(call.text))

\* C17: a text holding '>' but no '<' has been cleaned
C17_Witness ==
    /\ call.op = "clean"
    /\ cleaner = "ThML"
    /\ ~HasChar(call.text, ord("<"))
    /\ HasChar(call.text, ord(">"))
    /\ ret = Ok(Str(call.text))

C17_WitnessOSIS ==
    /\ call.op = "clean"
    /\ cleaner = "OSIS"
    /\ ~HasChar(call.text, ord("<"))
    /\ HasChar(call.text, ord(">"))

C17_WitnessGBF ==
    /\ call.op = "clean"
    /\ cleaner = "GBF"
    /\ ~HasChar(call.text, ord("<"))
    /\ HasChar(call.text, ord(">"))

----------------------------------------------------------------------------
(* The cleaners: texts and tags. *)

Range(s) == {s[i] : i \in 1..Len(s)}

\* a text that holds no tag
Plain(text) == ~HasChar(text, ord("<"))

\* whether s stands in text
Holds(text, s) == \E i \in 1..Len(text) : LitAt(FALSE, s, text, i)

OpeningTag(name) == U(<<"<">>) \o name \o U(<<">">>)
ClosingTag(name) == U(<<"<", "/">>) \o name \o U(<<">">>)

Before(text, i) == SubSeq(text, 1, i - 1)
From(text, i) == SubSeq(text, i, Len(text))

\* text is plain text, the opening tag of name at i, a content holding no
\* tag of this name, its closing tag at j, and plain text
ContentSpan(text, name, i, j) ==
    /\ LitAt(FALSE, OpeningTag(name), text, i)
    /\ LitAt(FALSE, ClosingTag(name), text, j)
    /\ i + Len(OpeningTag(name)) <= j
    /\ Plain(Before(text, i))
    /\ Plain(From(text, j + Len(ClosingTag(name))))
    /\ ~Holds(SubSeq(text, i + Len(OpeningTag(name)), j - 1), OpeningTag(name))
    /\ ~Holds(SubSeq(text, i + Len(OpeningTag(name)), j - 1), ClosingTag(name))

\* text is plain text, a pair of tags of name around plain text, and plain text
MarkedSpan(text, name, i, j) ==
    /\ ContentSpan(text, name, i, j)
    /\ Plain(SubSeq(text, i + Len(OpeningTag(name)), j - 1))

PsalmCleaned == U(<<"A", " ", "P", "s", "a", "l", "m", " ", "o", "f", " ", "D", "a", "v", "i", "d", ".", "T", "h", "e", " ", "L", "O", "R", "D", " ", "i", "s", " ", "m", "y", " ", "s", "h", "e", "p", "h", "e", "r", "d">>)

\* C18: the OSIS cleaner deletes the span from the opening tag of a
\* content-removing name to its closing tag, content included, and keeps the
\* text around it; of a structural tag it deletes the two markers and keeps
\* the text between them; the title and the note of the psalm are deleted
\* and the text around them is kept.
C18_OSISRemovesContentSpans ==
    (call.op = "clean" /\ cleaner = "OSIS") =>
        /\ call.text = TitleAndNote => ret = Ok(Str(PsalmCleaned))
        /\ \A name \in Range(remove_content_tagnames) :
             \A i \in 1..Len(call.text), j \in 1..Len(call.text) :
                ContentSpan(call.text, name, i, j) =>
                    ret = Ok(Str(Before(call.text, i)
                                    \o From(call.text, j + Len(ClosingTag(name)))))
        /\ \A name \in Range(keep_content_tagnames) :
             \A i \in 1..Len(call.text), j \in 1..Len(call.text) :
                MarkedSpan(call.text, name, i, j) =>
                    ret = Ok(Str(Before(call.text, i)
                                    \o SubSeq(call.text, i + Len(OpeningTag(name)), j - 1)
                                    \o From(call.text, j + Len(ClosingTag(name)))))

HexDigits ==
    Range(U(<<"0", "1", "2", "3", "4", "5", "6", "7", "8", "9",
              "a", "b", "c", "d", "e", "f", "A", "B", "C", "D", "E", "F">>))

\* the length of the character reference <CAxx> or <CUxxxx> that stands in
\* text at position i, 0 if none does
CharRefLen(text, i) ==
    IF /\ LitAt(FALSE, U(<<"<", "C", "A">>), text, i)
       /\ i + 5 <= Len(text)
       /\ \A k \in (i + 3)..(i + 4) : text[k] \in HexDigits
       /\ text[i + 5] = ord(">")
    THEN 6
    ELSE IF /\ LitAt(FALSE, U(<<"<", "C", "U">>), text, i)
            /\ i + 7 <= Len(text)
            /\ \A k \in (i + 3)..(i + 6) : text[k] \in HexDigits
            /\ text[i + 7] = ord(">")
    THEN 8
    ELSE 0

\* where the character references of text stand
CharRefs(text) == {i \in 1..Len(text) : CharRefLen(text, i) > 0}

\* every tag of text is a character reference
OnlyCharRefs(text) == \A i \in 1..Len(text) : text[i] = ord("<") => i \in CharRefs(text)

\* text from position i on, less its character references
RECURSIVE WithoutCharRefs(_, _)
WithoutCharRefs(text, i) ==
    IF i > Len(text) THEN <<>>
    ELSE IF CharRefLen(text, i) > 0 THEN WithoutCharRefs(text, i + CharRefLen(text, i))
    ELSE <<text[i]>> \o WithoutCharRefs(text, i + 1)

\* C19 as stated: the ThML cleaner passes the character references <CAxx>
\* and <CUxxxx> through, every one in the text being still in what clean
\* returns.
C19_ThMLPassesCharRefs ==
    (call.op = "clean" /\ cleaner = "ThML") =>
        Cardinality(CharRefs(ret.val.s)) >= Cardinality(CharRefs(call.text))

\* C19 amended: it is the GBF cleaner that passes the character references
\* through, returning as it is a text whose only tags they are; the ThML
\* cleaner removes every one of them.
C19_GBFPassesCharRefs ==
    (call.op = "clean" /\ OnlyCharRefs(call.text)) =>
        /\ cleaner = "GBF" => ret = Ok(Str(call.text))
        /\ cleaner = "ThML" => ret = Ok(Str(WithoutCharRefs(call.text, 1)))

\* C19: the GBF cleaner has cleaned a text with both kinds of reference
C19_Witness ==
    /\ call.op = "clean"
    /\ cleaner = "GBF"
    /\ OnlyCharRefs(call.text)
    /\ \E i \in CharRefs(call.text), j \in CharRefs(call.text) :
           CharRefLen(call.text, i) = 6 /\ CharRefLen(call.text, j) = 8
    /\ ret = Ok(Str(call.text))

\* C19: the ThML cleaner has removed references from among plain text
C19_WitnessThML ==
    /\ call.op = "clean"
    /\ cleaner = "ThML"
    /\ OnlyCharRefs(call.text)
    /\ CharRefs(call.text) # {}
    /\ ret.val.s # <<>>
    /\ ret = Ok(Str(WithoutCharRefs(call.text, 1)))

\* the verses of the chapters before the chapter of 0-based index chapter_index
VersesBefore(b, chapter_index) ==
    UNION {{<<c, v>> : v \in 1..b.chapter_lengths[c]} : c \in 1..chapter_index}

\* C20 as stated: for every book and every 0-based chapter_index in
\* 0..chapter_count-1, chapter_offset(chapter_index) is the sum of the lengths
\* of the chapters before it, plus chapter_index, plus 1.
C20_ChapterOffsetPlusOne ==
    (call.op = "chapter_offset" /\ call.chapter_index \in 0..(num_chapters(book) - 1)) =>
        ret = Ok(Cardinality(VersesBefore(book, call.chapter_index)) + call.chapter_index + 1)

\* C20 amended: chapter_offset(chapter_index) is the sum of the lengths of
\* the chapters before it, plus chapter_index, plus 2 (a slot for each title
\* of the chapters up to and including this one, and one for the book's).
C20_ChapterOffsetPlusTwo ==
    (call.op = "chapter_offset" /\ call.chapter_index \in 0..(num_chapters(book) - 1)) =>
        ret = Ok(Cardinality(VersesBefore(book, call.chapter_index)) + call.chapter_index + 2)

\* C20: the offset of the last of the three chapters of Genesis, after the
\* three verses of the first two
C20_Witness ==
    /\ call.op = "chapter_offset"
    /\ book = Gen
    /\ call.chapter_index = 2
    /\ Cardinality(VersesBefore(book, 2)) = 3
    /\ ret = Ok(7)

\* C20: the offset of the first chapter
C20_WitnessFirst ==
    /\ call.op = "chapter_offset"
    /\ call.chapter_index = 0
    /\ ret = Ok(2)

\* C21: chapter_offset(0) is 2 for every book, whatever the lengths of its
\* chapters.
C21_FirstChapterOffsetIsTwo ==
    (call.op = "chapter_offset" /\ call.chapter_index = 0) => ret = Ok(2)

\* C21: the offset of the first chapter of a book of several chapters, the
\* first of them of two verses
C21_Witness ==
    /\ call.op = "chapter_offset"
    /\ call.chapter_index = 0
    /\ num_chapters(book) = 3
    /\ book.chapter_lengths[1] = 2
    /\ ret = Ok(2)

\* C21: and of a book whose only chapter has two verses
C21_WitnessOneChapter ==
    /\ call.op = "chapter_offset"
    /\ call.chapter_index = 0
    /\ book.chapter_lengths = <<2>>
    /\ ret = Ok(2)

\* sum of chapter lengths + chapter count + 1
BookSize(b) ==
    Cardinality(UNION {{<<c, v>> : v \in 0..b.chapter_lengths[c]} : c \in 1..num_chapters(b)}) + 1

\* C22: in the offset table, the first book of each testament has offset 2
\* and each following book the offset of the book before it plus that
\* book's size, in the order the canon declares them; the count starts at 2
\* again for each testament.
C22_OffsetsRunPerTestament ==
    book_offsets.set =>
        \A i \in 1..Len(structure) :
            \A j \in 1..Len(structure[i].books) :
                /\ structure[i].books[j].name \in DOMAIN book_offsets.d
                /\ book_offsets.d[structure[i].books[j].name] =
                      IF j = 1 THEN 2
                      ELSE book_offsets.d[structure[i].books[j - 1].name]
                               + BookSize(structure[i].books[j - 1])

\* C22: the table of a Bible with both testaments of two books each
C22_Witness ==
    /\ book_offsets.set
    /\ versification = "kjv"
    /\ loaded = <<"ot", "nt">>
    /\ book_offsets.d[Gen.name] = 2
    /\ book_offsets.d[Obad.name] = 11
    /\ book_offsets.d[Mark.name] = 2
    /\ book_offsets.d[Jude.name] = 8

\* C23: the offset table is absent until the first call of _book_offset,
\* which fills it (also when it raises for an unknown name); find_book never
\* touches it; once filled, no call changes it, and _book_offset returns the
\* entry of the table, hence the same value for a book on every call.
C23_OffsetsComputedOnce ==
    /\ ~book_offsets.set
    /\ [][/\ book_offsets.set => book_offsets' = book_offsets
          /\ (call.op = "idle" /\ call'.op = "find_book") => book_offsets' = book_offsets
          /\ (call.op = "idle" /\ call'.op = "ref_to_indicies"
                /\ (\/ NormBooks(structure, call'.books) = <<>>
                    \/ ~find_book(structure, Head(NormBooks(structure, call'.books))).ok))
                => book_offsets' = book_offsets
          /\ (call.op = "idle" /\ call'.op = "book_offset") =>
                /\ book_offsets'.set
                /\ ret'.ok = (call'.book_name \in DOMAIN book_offsets'.d)
                /\ ret'.ok => ret'.val = book_offsets'.d[call'.book_name]
          /\ (~book_offsets.set /\ book_offsets'.set) =>
                call'.op \in {"book_offset", "ref_to_indicies"}]_vars

\* C23: a call of _book_offset has raised and the table is filled
C23_Witness ==
    /\ call.op = "book_offset"
    /\ ~ret.ok
    /\ book_offsets.set
    /\ book_offsets.d # EmptyDict

\* C23: a reference whose chapter is out of range has been resolved with the
\* table filled
C23_WitnessRaises ==
    /\ call.op = "ref_to_indicies"
    /\ ~ret.ok
    /\ book_offsets.set

\* C23: a reference to an unknown book leaves the table absent
C23_WitnessAbsent ==
    /\ call.op = "ref_to_indicies"
    /\ ~ret.ok
    /\ ~book_offsets.set

\* the block a verse record of the compressed index names, and where the
\* location file puts it
BlockOf(index) == ZVerseRecords[index + 1][1]
BlockAbsent(b) == (b + 1) * 12 > testaments[call.testament].b2l_size
Located(b) == BlockRecords(compress_type)[b + 1]
BlockPastEnd(b) == Located(b)[1] + Located(b)[2] > testaments[call.testament].text_size
LocatedBytes(b) ==
    SubSeq(testaments[call.testament].text, Located(b)[1] + 1, Located(b)[1] + Located(b)[2])
BlockCorrupt(b) == ~ZlibDecompress(LocatedBytes(b)).ok
ZLookup ==
    /\ call.op = "text_for_index"
    /\ ~IsRaw(module_type)
    /\ call.index < Len(ZVerseRecords)

\* C24: a lookup in a compressed module never raises; when the block of the
\* verse has no record in the location file, when the located bytes end past
\* the text file, and when their decompression fails, the verse is the empty
\* string, and the text file is read in the last case only.
C24_BlockResolutionNeverRaises ==
    ZLookup =>
        /\ ret.ok
        /\ BlockAbsent(BlockOf(call.index)) =>
              /\ ret = Ok(Str(<<>>))
              /\ Len(reads) = 1
        /\ (~BlockAbsent(BlockOf(call.index)) /\ BlockPastEnd(BlockOf(call.index))) =>
              /\ ret = Ok(Str(<<>>))
              /\ Len(reads) = 2
        /\ (/\ ~BlockAbsent(BlockOf(call.index))
            /\ ~BlockPastEnd(BlockOf(call.index))
            /\ BlockCorrupt(BlockOf(call.index))) =>
              /\ ret = Ok(Str(<<>>))
              /\ Len(reads) = 3

\* C24: a verse of a block that is not a compressed stream has been looked up
C24_Witness ==
    /\ ZLookup
    /\ BlockOf(call.index) = 1
    /\ ~BlockAbsent(1) /\ ~BlockPastEnd(1) /\ BlockCorrupt(1)
    /\ ret = Ok(Str(<<>>))

\* C24: a verse of a block that is a compressed stream without its last
\* byte has been looked up
C24_WitnessTruncated ==
    /\ ZLookup /\ compress_type = "ZIP"
    /\ BlockOf(call.index) = 4
    /\ ZlibStream(LocatedBytes(4) \o <<90>>).status = "ok"
    /\ BlockCorrupt(4)
    /\ ret = Ok(Str(<<>>)) /\ Len(reads) = 3

\* C24: a verse of a block that is a compressed stream with a wrong check of
\* the data has been looked up
C24_WitnessCheck ==
    /\ ZLookup /\ compress_type = "ZIP"
    /\ BlockOf(call.index) = 5
    /\ Inflate(LocatedBytes(5)).out = PlainText
    /\ BlockCorrupt(5)
    /\ ret = Ok(Str(<<>>)) /\ Len(reads) = 3

\* C24: a verse of a block without a location record has been looked up
C24_WitnessAbsent ==
    /\ ZLookup
    /\ BlockAbsent(BlockOf(call.index))
    /\ ret = Ok(Str(<<>>))

\* C24: a verse of a block located past the end of the text file has been looked up
C24_WitnessPastEnd ==
    /\ ZLookup
    /\ ~BlockAbsent(BlockOf(call.index))
    /\ BlockPastEnd(BlockOf(call.index))
    /\ ret = Ok(Str(<<>>))

----------------------------------------------------------------------------
(* Concurrent lookups. Threads call _text_for_index on Bible instances     *)
(* opened on the same module files. Testament.__init__ opens the handles  *)
(* of an instance, and _encoding is a field of the instance; seek and read *)
(* are separate calls on a handle, _decode_bytes tests _encoding, may set *)
(* it and then reads it again, and another thread may run between any two  *)
(* of these steps.                                                         *)

Threads == {1, 2}
Bibles == {1, 2}

\* the index of the verse record (verse_start, verse_len)
RecordIndex(verse_start, verse_len) == verse_start * (MaxLen + 1) + verse_len

\* the verses the threads look up: "Hi", U+00E9, a record past the end of the
\* text, and the last record of the compressed index (past the end of a raw
\* index, a verse of a block without a location record in a compressed module)
ThreadIndices ==
    {RecordIndex(0, 2), RecordIndex(2, 2), RecordIndex(3, 3), Len(ZVerseRecords) - 1}

IndexName(mt) == IF IsRaw(mt) THEN "v2l" ELSE "v2b"
IndexSize(mt, tm) == IF IsRaw(mt) THEN tm.v2l_size ELSE tm.v2b_size

\* the instance whose handles and encoding every lookup would use if the
\* handles belonged to the class
InstanceOf_Shared(t) == 1

\* self of the lookup a thread runs: the handles are self._testaments[testament]
InstanceOf(t) == thread[t].bible

NewThread(b) ==
    [pc |-> "idle", bible |-> b, index |-> 0, enc0 |-> NoEncoding, rec |-> <<>>, loc |-> <<>>,
     byte_data |-> <<>>, unicode_data |-> <<>>, ret |-> Ok(<<>>)]

InitThreads ==
    /\ versification = "kjv"
    /\ book = Gen
    /\ book_offsets = NoOffsets
    /\ \E mt \in {"rawtext", "ztext"}, enc \in {NoEncoding, "utf-8"} :
            Opened(mt, "ZIP", enc, <<"ot">>)
    /\ cleaner = "OSIS"
    /\ call = Idle /\ ret = Ok(<<>>) /\ reads = <<>> /\ looked = <<>> /\ pending = <<>>
    /\ \E b \in Bibles : thread = [t \in Threads |-> NewThread(IF t = 1 THEN 1 ELSE b)]
    /\ instances = [b \in Bibles |-> [pos |-> StartPos(module_type), encoding |-> encoding]]

Returns(t, r) == [thread[t] EXCEPT !.pc = "done", !.ret = r]

\* lines 328, 399: _decode_bytes is called on the bytes of the verse
Decodes(t, byte_data) == [thread[t] EXCEPT !.pc = "detect", !.byte_data = byte_data]

\* lines 313-314, 389-390: the call and its check of the index
Begin(t) ==
    /\ thread[t].pc = "idle"
    /\ \E index \in ThreadIndices :
        LET started == [thread[t] EXCEPT !.index = index,
                                         !.enc0 = instances[InstanceOf(t)].encoding]
        IN  thread' = [thread EXCEPT ![t] =
                IF IndexCheckFails(verse_record_size(module_type), index,
                                   IndexSize(module_type, testaments["ot"]))
                THEN [started EXCEPT !.pc = "done", !.ret = Ok(Str(<<>>))]
                ELSE [started EXCEPT !.pc = "seek_index"]]
    /\ UNCHANGED instances
    /\ UNCHANGED <<structVars, moduleVars, call, ret, reads, looked, pending>>

\* lines 320, 395: verse_to_loc.seek, verse_to_buf.seek
SeekIndex(t) ==
    /\ thread[t].pc = "seek_index"
    /\ instances' = [instances EXCEPT ![InstanceOf(t)].pos[IndexName(module_type)] =
                        seek(@, verse_record_size(module_type) * thread[t].index)]
    /\ thread' = [thread EXCEPT ![t].pc = "read_index"]
    /\ UNCHANGED <<structVars, moduleVars, call, ret, reads, looked, pending>>

\* lines 321-325, 396-398 and 409-411: the read of the verse record, its
\* unpacking and the check that follows
ReadIndex(t) ==
    /\ thread[t].pc = "read_index"
    /\ LET f   == IndexName(module_type)
           tm  == testaments["ot"]
           at  == instances[InstanceOf(t)].pos[f]
           raw == read(tm[f], at, verse_record_size(module_type))
           rec == unpack(verse_record_format(module_type), raw)
           moved == [instances EXCEPT ![InstanceOf(t)].pos[f] = at + Len(raw)]
       IN  IF ~rec.ok
           THEN /\ thread' = [thread EXCEPT ![t] = Returns(t, rec)]
                /\ instances' = moved
           ELSE IF IsRaw(module_type)
           THEN /\ thread' = [thread EXCEPT ![t] =
                      IF TextCheckFails(rec.val[1], rec.val[2], tm.text_size)
                      THEN Returns(t, Ok(Bytes(<<>>)))
                      ELSE [thread[t] EXCEPT !.pc = "seek_text", !.rec = rec.val]]
                /\ instances' = moved
           ELSE IF ((rec.val[1] + 1) * 12) > tm.b2l_size
           THEN /\ thread' = [thread EXCEPT ![t] = Decodes(t, <<>>)]
                /\ instances' = moved
           ELSE /\ thread' = [thread EXCEPT ![t] = [thread[t] EXCEPT !.pc = "seek_loc", !.rec = rec.val]]
                /\ instances' = moved
    /\ UNCHANGED <<structVars, moduleVars, call, ret, reads, looked, pending>>

\* line 416: buf_to_loc.seek
SeekLoc(t) ==
    /\ thread[t].pc = "seek_loc"
    /\ instances' = [instances EXCEPT ![InstanceOf(t)].pos.b2l = seek(@, thread[t].rec[1] * 12)]
    /\ thread' = [thread EXCEPT ![t].pc = "read_loc"]
    /\ UNCHANGED <<structVars, moduleVars, call, ret, reads, looked, pending>>

\* lines 417-421: the read of the block record and the check of the block
ReadLoc(t) ==
    /\ thread[t].pc = "read_loc"
    /\ LET tm  == testaments["ot"]
           at  == instances[InstanceOf(t)].pos.b2l
           raw == read(tm.b2l, at, 12)
           rec == unpack(<<4, 4, 4>>, raw)
           moved == [instances EXCEPT ![InstanceOf(t)].pos.b2l = at + Len(raw)]
       IN  IF ~rec.ok
           THEN /\ thread' = [thread EXCEPT ![t] = Returns(t, rec)]
                /\ instances' = moved
           ELSE IF (rec.val[1] + rec.val[2]) > tm.text_size
           THEN /\ thread' = [thread EXCEPT ![t] = Decodes(t, <<>>)]
                /\ instances' = moved
           ELSE /\ thread' = [thread EXCEPT ![t] = [thread[t] EXCEPT !.pc = "seek_text", !.loc = rec.val]]
                /\ instances' = moved
    /\ UNCHANGED <<structVars, moduleVars, call, ret, reads, looked, pending>>

\* lines 327, 424: text.seek
SeekText(t) ==
    /\ thread[t].pc = "seek_text"
    /\ instances' = [instances EXCEPT ![InstanceOf(t)].pos.text =
                        seek(@, IF IsRaw(module_type) THEN thread[t].rec[1] ELSE thread[t].loc[1])]
    /\ thread' = [thread EXCEPT ![t].pc = "read_text"]
    /\ UNCHANGED <<structVars, moduleVars, call, ret, reads, looked, pending>>

\* lines 328, 425-431 and 399: the read of the text, the decompression of a
\* block and the slice of the verse, which use no state of the instance
ReadText(t) ==
    /\ thread[t].pc = "read_text"
    /\ LET tm   == testaments["ot"]
           at   == instances[InstanceOf(t)].pos.text
           n    == IF IsRaw(module_type) THEN thread[t].rec[2] ELSE thread[t].loc[2]
           data == read(tm.text, at, n)
           verse == IF IsRaw(module_type) THEN data
                    ELSE slice(decompress_block(compress_type, data).val,
                               thread[t].rec[2], thread[t].rec[2] + thread[t].rec[3])
       IN  /\ thread' = [thread EXCEPT ![t] = Decodes(t, verse)]
           /\ instances' = [instances EXCEPT ![InstanceOf(t)].pos.text = at + Len(data)]
    /\ UNCHANGED <<structVars, moduleVars, call, ret, reads, looked, pending>>

\* _decode_bytes, lines 204-210: with no encoding set the bytes are decoded
\* as strict UTF-8, and the encoding of the instance is set to cp1252 when
\* that fails
Detect(t) ==
    /\ thread[t].pc = "detect"
    /\ LET strict == Utf8Strict(thread[t].byte_data)
           unset  == instances[InstanceOf(t)].encoding = NoEncoding
       IN  /\ thread' = [thread EXCEPT ![t].pc = "decode",
                                        ![t].unicode_data = IF unset /\ strict.ok THEN strict.val ELSE <<>>]
           /\ instances' = IF unset /\ ~strict.ok
                           THEN [instances EXCEPT ![InstanceOf(t)].encoding = "cp1252"]
                           ELSE instances
    /\ UNCHANGED <<structVars, moduleVars, call, ret, reads, looked, pending>>

\* _decode_bytes, lines 211-213: the bytes are decoded with the encoding the
\* instance has by now, if it has one; the text is returned
Decode(t) ==
    /\ thread[t].pc = "decode"
    /\ LET enc == instances[InstanceOf(t)].encoding
           unicode_data == IF enc # NoEncoding THEN DecodeReplace(enc, thread[t].byte_data)
                           ELSE thread[t].unicode_data
       IN  thread' = [thread EXCEPT ![t] = Returns(t, Ok(Str(unicode_data)))]
    /\ UNCHANGED instances
    /\ UNCHANGED <<structVars, moduleVars, call, ret, reads, looked, pending>>

\* the caller takes the result
Finish(t) ==
    /\ thread[t].pc = "done"
    /\ thread' = [thread EXCEPT ![t] = NewThread(thread[t].bible)]
    /\ UNCHANGED instances
    /\ UNCHANGED <<structVars, moduleVars, call, ret, reads, looked, pending>>

NextThreads ==
    \E t \in Threads :
        \/ Begin(t) \/ SeekIndex(t) \/ ReadIndex(t) \/ SeekLoc(t) \/ ReadLoc(t)
        \/ SeekText(t) \/ ReadText(t) \/ Detect(t) \/ Decode(t) \/ Finish(t)

SpecThreads == InitThreads /\ [][NextThreads]_vars

\* the result of the lookup a thread runs when no other call runs on the
\* instance between its start and its end
Alone(t) ==
    text_for_index(module_type, compress_type, testaments["ot"], thread[t].enc0,
                   StartPos(module_type), thread[t].index).ret

OwnInstance(t) == \A u \in Threads \ {t} : thread[u].bible # thread[t].bible

\* C25: a lookup on a Bible instance that no other thread uses returns what
\* it returns when run alone, whatever the steps of the lookups on the other
\* instance it is interleaved with; a lookup on an instance shared with
\* another thread can return something else (C25_Witness).
C25_DistinctInstancesIndependent ==
    \A t \in DOMAIN thread :
        (thread[t].pc = "done" /\ OwnInstance(t)) => thread[t].ret = Alone(t)

\* C25: two threads share an instance and a lookup has returned, without
\* raising, a text that is not the text of its verse
C25_Witness ==
    \E t \in DOMAIN thread :
        /\ thread[t].pc = "done"
        /\ ~OwnInstance(t)
        /\ thread[t].ret.ok
        /\ Alone(t).ok
        /\ thread[t].ret # Alone(t)

\* C25: two threads share an instance with no encoding declared, and a
\* lookup of U+00E9 that began before the encoding was set has read the
\* bytes of its own verse and returned them decoded as cp1252, the other
\* lookup having set the encoding between its read and its decoding
C25_WitnessEncoding ==
    \E t \in DOMAIN thread :
        /\ thread[t].pc = "done"
        /\ ~OwnInstance(t)
        /\ thread[t].enc0 = NoEncoding
        /\ thread[t].index = RecordIndex(2, 2)
        /\ thread[t].byte_data = <<195, 169>>
        /\ Alone(t) = Ok(Str(<<233>>))
        /\ thread[t].ret = Ok(Str(<<195, 169>>))

\* C25: two threads on distinct instances, each on a handle the other has
\* moved on its own instance, have both returned their verses
C25_WitnessDistinct ==
    /\ DOMAIN thread = Threads
    /\ \A t \in Threads :
        /\ OwnInstance(t)
        /\ thread[t].pc = "done"
        /\ \A b \in Bibles : instances[b].pos.text > 0
        /\ thread[t].ret.ok
        /\ Len(thread[t].ret.val.s) > 0

\* the slots of a book placed at a base offset: the heading of the book, the
\* heading of each chapter, the verses
BookHeadingSlot(o) == o
ChapterHeadingSlots(b, o) == {o + VerseSlot(b, c, 0) : c \in 1..num_chapters(b)}
VerseSlots(b, o) ==
    UNION {{o + VerseSlot(b, c, v) : v \in 1..b.chapter_lengths[c]} : c \in 1..num_chapters(b)}

\* C26: every index a successful get_indicies call returns for a book at
\* base offset o is a verse slot of the book: it lies in [o+2, o+size-1] (so
\* in no other book's range) and is neither the heading slot of the book nor
\* that of a chapter.
C26_IndicesAreVerseSlots ==
    (call.op = "get_indicies" /\ ret.ok) =>
        \A i \in 1..Len(ret.val) :
            /\ ret.val[i] >= call.offset + 2
            /\ ret.val[i] <= call.offset + size(book) - 1
            /\ ret.val[i] # BookHeadingSlot(call.offset)
            /\ ret.val[i] \notin ChapterHeadingSlots(book, call.offset)
            /\ ret.val[i] \in VerseSlots(book, call.offset)

\* what _text_for_index returns for a testament and an index if called now
WouldReturn(t, index) ==
    text_for_index(module_type, compress_type, testaments[t], encoding, pos[t], index).ret

AllIndices == 0..(NumRecords(module_type) + 1)

\* the same after the step that is being taken
WouldReturnNext(t, index) ==
    text_for_index(module_type, compress_type, testaments[t], encoding', pos'[t], index).ret

NothingChangesForLookups ==
    \A t \in DOMAIN testaments, index \in AllIndices :
        WouldReturnNext(t, index) = WouldReturn(t, index)

\* C27 (as stated): no call changes what a lookup of any testament and index
\* returns, with a declared and with an auto-detected encoding; so the text
\* of a lookup does not depend on the lookups made before it.
C27_LookupsHistoryIndependent == [][NothingChangesForLookups]_vars

\* what a module just opened returns for the lookup made, its encoding state
\* being the one the module is in now
FreshReturn ==
    text_for_index(module_type, compress_type, testaments[call.testament], encoding,
                   StartPos(module_type), call.index).ret

\* C27 (amended): whatever lookups were made before it, a lookup returns
\* what a module just opened returns in the encoding state the module is in;
\* an encoding that is set (declared, or detected) is never changed by a
\* call. So lookups are history-independent when an encoding is declared,
\* and under auto-detection a text depends on the earlier lookups only
\* through the encoding state they left.
C27_HistoryIndependentGivenEncoding ==
    /\ [](call.op = "text_for_index" => ret = FreshReturn)
    /\ [][encoding # NoEncoding => encoding' = encoding]_vars

\* C27: with the encoding undetermined, U+00E9 has been looked up and
\* decoded as UTF-8, and the encoding is undetermined still
C27_Witness ==
    /\ call.op = "text_for_index"
    /\ encoding = NoEncoding
    /\ ret = Ok(Str(<<233>>))
    /\ call.index = RecordIndex(2, 2)

\* C27: a declared UTF-8 encoding is kept by a lookup of bytes that are not UTF-8
C27_WitnessDeclared ==
    /\ call.op = "text_for_index"
    /\ encoding = "utf-8"
    /\ ret = Ok(Str(<<ReplacementChar>>))

\* C27: the bytes of U+00E9 have been decoded as cp1252
C27_WitnessFallback ==
    /\ call.op = "text_for_index"
    /\ encoding = "cp1252"
    /\ call.index = RecordIndex(2, 2)
    /\ ret = Ok(Str(<<195, 169>>))

\* the book names a query asks for, and whether a name is that of a book
\* of a testament the module has no files of
NamesAsked == IF call.books.kind = "none" THEN <<>> ELSE call.books.v
OfUnloadedTestament(name) ==
    \E t \in {"ot", "nt"} \ Names(loaded) :
        \E j \in 1..Len(canons[versification][t]) :
            name_matches(canons[versification][t][j], name)

\* C28: every testament get_iter has looked up or is yet to look up (the
\* keys of the ref_to_indicies result) is a testament whose files were
\* opened, so no lookup of the testament's handles fails; a query naming a
\* book of a testament that was not opened raises ValueError, book-not-found
\* when that book is the first one asked for.
C28_OnlyOpenedTestamentsLookedUp ==
    call.op = "get_iter" =>
        /\ \A i \in 1..Len(looked) : looked[i].testament \in DOMAIN testaments
        /\ \A i \in 1..Len(pending) : pending[i].testament \in DOMAIN testaments
        /\ ~(ret.exc = "KeyError" /\ ret.why = "testament")
        /\ (\E i \in 1..Len(NamesAsked) : OfUnloadedTestament(NamesAsked[i])) =>
              /\ ~ret.ok /\ ret.exc = "ValueError"
              /\ looked = <<>> /\ pending = <<>>
              /\ OfUnloadedTestament(NamesAsked[1]) => ret.why = "book"

\* C28: with the Old Testament opened only, a query for Jude and Genesis has
\* raised book-not-found
C28_Witness ==
    /\ call.op = "get_iter"
    /\ loaded = <<"ot">>
    /\ call.books = List(<<Jude.name, Gen.name>>)
    /\ ~ret.ok /\ ret.exc = "ValueError" /\ ret.why = "book"

\* C28: with the New Testament opened only, a query for every book has
\* looked up verses of the New Testament and has ended
C28_WitnessAll ==
    /\ call.op = "get_iter"
    /\ loaded = <<"nt">>
    /\ call.books = None
    /\ ret.ok
    /\ pending = <<>>
    /\ looked # <<>>
    /\ \A i \in 1..Len(looked) : looked[i].testament = "nt"

\* the file of an opened testament a read was issued on
FileRead(r) == testaments[r.testament][r.file]

InsideFile(r) == r.at >= 0 /\ r.n >= 0 /\ r.at + r.n <= Len(FileRead(r))

\* C29: every read a lookup issues lies inside its file: the first is the
\* read of the whole index record of the index, the read of the location
\* file is that of the whole record of the block, a read of the text file
\* covers the located bytes and ends at or before the end of the file; no
\* lookup raises struct.error.
C29_ReadsInsideFiles ==
    call.op = "text_for_index" =>
        /\ ~(ret.exc = "struct.error")
        /\ \A k \in 1..Len(reads) : InsideFile(reads[k])
        /\ reads # <<>> =>
              /\ reads[1].file = IndexName(module_type)
              /\ reads[1].at = verse_record_size(module_type) * call.index
              /\ reads[1].n = verse_record_size(module_type)
        /\ \A k \in 2..Len(reads) :
              /\ reads[k].file = "b2l" =>
                    /\ reads[k].at = 12 * BlockOf(call.index)
                    /\ reads[k].n = 12
              /\ reads[k].file = "text" =>
                    /\ k = Len(reads)
                    /\ reads[k].at + reads[k].n <= testaments[call.testament].text_size
                    /\ IsRaw(module_type) =>
                          <<reads[k].at, reads[k].n>> = VerseRecords[call.index + 1]
                    /\ ~IsRaw(module_type) =>
                          /\ reads[k].at = Located(BlockOf(call.index))[1]
                          /\ reads[k].n = Located(BlockOf(call.index))[2]

\* C29: a lookup in a compressed module has read the index record, the
\* location record and the block, the block ending inside the text file
C29_Witness ==
    /\ call.op = "text_for_index"
    /\ ~IsRaw(module_type)
    /\ Len(reads) = 3
    /\ reads[3].file = "text"
    /\ reads[3].n > 0
    /\ \A k \in 1..3 : InsideFile(reads[k])

\* C29: a lookup in a raw module has read the verse that ends the text file
C29_WitnessLastVerse ==
    /\ call.op = "text_for_index"
    /\ IsRaw(module_type)
    /\ Len(reads) = 2
    /\ reads[2].n > 0
    /\ reads[2].at + reads[2].n = testaments[call.testament].text_size

\* C29: a lookup of the last whole record of an index, an incomplete record
\* following it, has read the record
C29_WitnessLastRecord ==
    /\ call.op = "text_for_index"
    /\ call.index = NumRecords(module_type) - 1
    /\ reads # <<>>
    /\ reads[1].at + reads[1].n < Len(FileRead(reads[1]))

\* the books of the structure a query asks for
BooksAsked ==
    {b \in UNION {{structure[i].books[j] : j \in 1..Len(structure[i].books)} :
                     i \in 1..Len(structure)} :
        call.books.kind = "none" \/ \E i \in 1..Len(NamesAsked) : name_matches(b, NamesAsked[i])}

\* a name asked for that no book of the structure has
UnknownBookAsked ==
    \E i \in 1..Len(NamesAsked) :
        \A k \in 1..Len(structure) : \A j \in 1..Len(structure[k].books) :
            ~name_matches(structure[k].books[j], NamesAsked[i])

\* a chapter asked for that a book asked for does not have
ChapterPastEndAsked ==
    /\ call.chapters.kind # "none"
    /\ \E b \in BooksAsked : \E i \in 1..Len(call.chapters.v) :
          call.chapters.v[i] > num_chapters(b)

\* one chapter and verses asked for, one of the verses being past the end of
\* the chapter in a book asked for
VersePastEndAsked ==
    /\ call.chapters.kind # "none" /\ Len(call.chapters.v) = 1
    /\ call.verses.kind # "none"
    /\ \E b \in BooksAsked :
          /\ call.chapters.v[1] \in 1..num_chapters(b)
          /\ \E i \in 1..Len(call.verses.v) :
                call.verses.v[i] > b.chapter_lengths[call.chapters.v[1]]

\* C30: reference resolution is all-or-nothing: when a book, a chapter or a
\* verse asked for is invalid, be it of the last book asked for or a verse
\* that is not the last of its list, the query has raised ValueError with no
\* text yielded, no file read and nothing left to look up.
C30_ResolutionAllOrNothing ==
    (call.op = "get_iter" /\ (UnknownBookAsked \/ ChapterPastEndAsked \/ VersePastEndAsked))
    => /\ ~ret.ok /\ ret.exc = "ValueError"
       /\ ret.val = <<>> /\ reads = <<>> /\ looked = <<>> /\ pending = <<>>

====
